---- MODULE Spec2Model ----
(***************************************************************************)
(* Model of the chat turn of backend/services/chat_service.py              *)
(* (handle_chat) with the guards, responses and suggestion helpers it      *)
(* calls, the retriever it reads from and the indexing pipeline that       *)
(* produced the passages.                                                  *)
(*                                                                         *)
(* Texts are sequences of symbols.  A symbol stands for one character      *)
(* (" ", ":", "Q", "q", "7", one Hangul syllable written in Latin letters  *)
(* such as "bang" for U+BC29) or for a fixed fragment that no operation of *)
(* the code splits ("[type]", "===", "ipx7").  Scores are the floats of    *)
(* the code multiplied by 1000.                                            *)
(***************************************************************************)
EXTENDS Integers, Sequences, FiniteSets, TLC

(***************************************************************************)
(* Python str primitives on texts                                          *)
(***************************************************************************)
UpperLetters ==
    <<"A", "B", "C", "D", "E", "F", "G", "H", "I", "J", "K", "L", "M",
      "N", "O", "P", "Q", "R", "S", "T", "U", "V", "W", "X", "Y", "Z">>
LowerLetters ==
    <<"a", "b", "c", "d", "e", "f", "g", "h", "i", "j", "k", "l", "m",
      "n", "o", "p", "q", "r", "s", "t", "u", "v", "w", "x", "y", "z">>
Upper == {UpperLetters[k] : k \in 1..Len(UpperLetters)}

\* str.lower(), one character
LowerOf ==
    [c \in Upper |-> LowerLetters[CHOOSE k \in 1..Len(UpperLetters) : UpperLetters[k] = c]]

LowerChar(c) == IF c \in Upper THEN LowerOf[c] ELSE c

\* str.lower()
Lower(s) == [i \in 1..Len(s) |-> LowerChar(s[i])]

\* characters matched by \s
IsSpace(c) == c \in {" ", "\n", "\t"}

RECURSIVE LStrip(_)
LStrip(s) == IF s # <<>> /\ IsSpace(Head(s)) THEN LStrip(Tail(s)) ELSE s

RECURSIVE RStrip(_)
RStrip(s) ==
    IF s # <<>> /\ IsSpace(s[Len(s)]) THEN RStrip(SubSeq(s, 1, Len(s) - 1)) ELSE s

\* str.strip()
Strip(s) == RStrip(LStrip(s))

\* pat occurs in s at position i (1-based)
OccursAt(s, pat, i) ==
    /\ i >= 1
    /\ i + Len(pat) - 1 <= Len(s)
    /\ \A j \in 1..Len(pat) : s[i + j - 1] = pat[j]

\* pat in s
Contains(s, pat) == \E i \in 1..(Len(s) + 1) : OccursAt(s, pat, i)

\* str.find(pat), 1-based, 0 when absent
Find(s, pat) ==
    IF Contains(s, pat)
    THEN CHOOSE i \in 1..(Len(s) + 1) :
            OccursAt(s, pat, i) /\ \A k \in 1..(i - 1) : ~OccursAt(s, pat, k)
    ELSE 0

\* str.rfind(pat), 1-based, 0 when absent
RFind(s, pat) ==
    IF Contains(s, pat)
    THEN CHOOSE i \in 1..(Len(s) + 1) :
            OccursAt(s, pat, i) /\ \A k \in (i + 1)..(Len(s) + 1) : ~OccursAt(s, pat, k)
    ELSE 0

\* s.split(pat, 1)[0] and s.split(pat, 1)[1], for pat in s
SplitBefore(s, pat) == SubSeq(s, 1, Find(s, pat) - 1)
SplitAfter(s, pat) == SubSeq(s, Find(s, pat) + Len(pat), Len(s))

\* str.count(pat): non-overlapping occurrences, scanning from the left
RECURSIVE CountFrom(_, _, _)
CountFrom(s, pat, i) ==
    IF i + Len(pat) - 1 > Len(s) THEN 0
    ELSE IF OccursAt(s, pat, i) THEN 1 + CountFrom(s, pat, i + Len(pat))
    ELSE CountFrom(s, pat, i + 1)

Count(s, pat) == CountFrom(s, pat, 1)

\* re.sub(r'\s+', ' ', text).strip()
RECURSIVE CollapseSpaces(_)
CollapseSpaces(s) ==
    IF s = <<>> THEN <<>>
    ELSE IF IsSpace(Head(s))
         THEN <<" ">> \o CollapseSpaces(LStrip(s))
         ELSE <<Head(s)>> \o CollapseSpaces(Tail(s))

NormalizeWs(s) == Strip(CollapseSpaces(s))

\* the elements of a sequence
Range(s) == {s[i] : i \in 1..Len(s)}

\* [x for x in s if x in keep], order kept
RECURSIVE SelectIn(_, _)
SelectIn(s, keep) ==
    IF s = <<>> THEN <<>>
    ELSE IF Head(s) \in keep
         THEN <<Head(s)>> \o SelectIn(Tail(s), keep)
         ELSE SelectIn(Tail(s), keep)

(***************************************************************************)
(* services/chat/internal/constants.py                                     *)
(***************************************************************************)
\* scores are the code's floats times 1000
MIN_CONTEXT_SCORE == 50

DIRECT_QNA_MIN_SCORE == 70

\* the strong bar lowered to the minimum bar
DIRECT_QNA_STRONG_SCORE_as_min == DIRECT_QNA_MIN_SCORE

DIRECT_QNA_STRONG_SCORE == 180

\* characters of the classes 0-9, a-z and Hangul syllables.  A syllable is
\* written initial + vowel + final in Latin letters, a silent initial as "'".
Digits == {"0", "1", "2", "3", "4", "5", "6", "7", "8", "9"}
LatinLower == {LowerLetters[k] : k \in 1..Len(LowerLetters)}
Hangul ==
    {"'al", "'an", "'e", "'eo", "'eol", "'eos", "'eul", "'eun", "'i", "'ib",
     "'in", "'iss", "'ob", "'ui", "'ul", "'un", "'wae", "'yang", "'yeo",
     "'yo", "'yong", "'yu", "bae", "ban", "bang", "beob", "beul", "bo", "bu",
     "bul", "bun", "byeon", "chaj", "cham", "da", "dab", "deu", "deung",
     "do", "doe", "doen", "du", "ga", "gam", "gan", "ge", "geo", "geos",
     "geu", "geub", "geun", "gi", "go", "gong", "gu", "gug", "gwan", "gye",
     "gyeo", "gyo", "hae", "haeg", "hal", "ham", "han", "hi", "hu", "hwag",
     "hwan", "hyeong", "jae", "je", "jeo", "jeol", "jeong", "jeu", "ji",
     "jil", "jing", "jo", "jom", "ju", "jun", "jwo", "kke", "ma", "mae",
     "mos", "mu", "mun", "mwo", "myeon", "na", "nae", "nam", "ne", "neu",
     "neun", "neung", "ni", "pe", "po", "pon", "pum", "reul", "ri", "ril",
     "ru", "ryeo", "ryeob", "ryeon", "sa", "sang", "se", "seo", "seong",
     "seu", "seub", "si", "sig", "sim", "so", "song", "ssal", "su", "syeon",
     "ta", "tag", "teo", "teug", "tong", "tta", "tteoh", "tteon", "tteus",
     "tu"}

QUERY_STOP_TOKENS ==
    { <<"'i">>,
      <<"geu">>,
      <<"jeo">>,
      <<"geos">>,
      <<"geo">>,
      <<"su">>,
      <<"jom">>,
      <<"jeong", "do">>,
      <<"gwan", "ryeon">>,
      <<"ga", "neung">>,
      <<"'yeo", "bu">>,
      <<"'iss", "na">>,
      <<"'iss", "na", "'yo">>,
      <<"'iss", "'eo">>,
      <<"'iss", "'eo", "'yo">>,
      <<"doe", "na", "'yo">>,
      <<"doe", "na">>,
      <<"'in", "ga">>,
      <<"'in", "ga", "'yo">>,
      <<"'eo", "tteoh", "ge">>,
      <<"'wae">>,
      <<"mu", "'eos">>,
      <<"mwo">>,
      <<"'eo", "tteon">>,
      <<"'eol", "ma">>,
      <<"'eol", "ma", "na">>,
      <<"hae", "ju", "se", "'yo">>,
      <<"'al", "ryeo", "jwo">>,
      <<"gi", "neung">> }

(***************************************************************************)
(* services/chat/internal/guards.py                                        *)
(***************************************************************************)
Q_MARK == <<"Q", ":">>
A_MARK == <<"A", ":">>

\* None and "" are both falsy and every caller only tests truthiness, so the
\* None result is the empty text.
extract_qna_answer(content) ==
    IF content = <<>> \/ ~Contains(content, A_MARK) THEN <<>>
    ELSE Strip(SplitAfter(content, A_MARK))

extract_qna_question(content) ==
    IF content = <<>> \/ ~Contains(content, Q_MARK) THEN <<>>
    ELSE LET q_part == SplitAfter(content, Q_MARK)
         IN  IF Contains(q_part, A_MARK)
             THEN Strip(SplitBefore(q_part, A_MARK))
             ELSE Strip(q_part)

\* the class [0-9a-z Hangul] of the token pattern
TokenChars == Digits \cup LatinLower \cup Hangul

IsTokenChar(c) == c \in TokenChars

\* re.findall(r"[0-9a-z Hangul]{2,}", s): maximal runs of length >= 2
RECURSIVE FindTokens(_, _, _)
FindTokens(s, i, cur) ==
    IF i > Len(s)
    THEN IF Len(cur) >= 2 THEN <<cur>> ELSE <<>>
    ELSE IF IsTokenChar(s[i])
         THEN FindTokens(s, i + 1, Append(cur, s[i]))
         ELSE (IF Len(cur) >= 2 THEN <<cur>> ELSE <<>>) \o FindTokens(s, i + 1, <<>>)

\* the tokens of the query with its stop tokens kept
QueryTokens_with_stop(query) == FindTokens(Lower(query), 1, <<>>)

\* tokens of the query that are not stop tokens
QueryTokens(query) ==
    LET tokens == FindTokens(Lower(query), 1, <<>>)
    IN  SelectIn(tokens, Range(tokens) \ QUERY_STOP_TOKENS)

keyword_overlap(query, text) ==
    IF query = <<>> \/ text = <<>> THEN FALSE
    ELSE LET tokens == QueryTokens(query)
             t == Lower(text)
         IN  \E k \in 1..Len(tokens) : Contains(t, tokens[k])

META_PHRASE ==
    <<"dab", "byeon", " ", "nae", "'yong", "'e", " ", "po", "ham", "doen",
      " ", "jeong", "bo">>

red_flags ==
    << <<"[type]">>,
       META_PHRASE,
       <<"===", " ", "dab", "byeon">>,
       <<"===", " ", "jil", "mun">>,
       <<"q", ":">>,
       <<"a", ":">>,
       <<"dab", "byeon", " ", "hyeong", "sig">>,
       <<"(", "description|review|qna", ")">>,
       <<"description|review|qna">> >>

\* sum(1 for f in red_flags if f in lowered)
RedFlagHits(answer) ==
    LET lowered == Lower(answer)
    IN  Cardinality({k \in 1..Len(red_flags) : Contains(lowered, red_flags[k])})

\* the detector without its test of the empty answer
looks_like_template_garbage_no_empty(answer) ==
    IF RedFlagHits(answer) >= 2 THEN TRUE
    ELSE IF Count(answer, META_PHRASE) >= 2 THEN TRUE
    ELSE FALSE

looks_like_template_garbage(answer) ==
    IF answer = <<>> THEN TRUE
    ELSE IF RedFlagHits(answer) >= 2 THEN TRUE
    ELSE IF Count(answer, META_PHRASE) >= 2 THEN TRUE
    ELSE FALSE

(***************************************************************************)
(* json.loads on texts.  A JSON value is a record: t is its type, s the    *)
(* text of a string or number, keys and items the members of an object or  *)
(* the items of an array.                                                  *)
(***************************************************************************)
DQ == "\""
BACKSLASH == "\\"

JNull == [t |-> "null", s |-> <<>>, keys |-> <<>>, items |-> <<>>]
JStr(x) == [t |-> "str", s |-> x, keys |-> <<>>, items |-> <<>>]
JNum(x) == [t |-> "num", s |-> x, keys |-> <<>>, items |-> <<>>]
JLit(x) == [t |-> x, s |-> <<>>, keys |-> <<>>, items |-> <<>>]
JArr(xs) == [t |-> "arr", s |-> <<>>, keys |-> <<>>, items |-> xs]
JObj(ks, xs) == [t |-> "obj", s |-> <<>>, keys |-> ks, items |-> xs]

JFail == [ok |-> FALSE, val |-> JNull, next |-> 0]
JOk(v, n) == [ok |-> TRUE, val |-> v, next |-> n]

\* first position at or after i that holds no JSON whitespace
RECURSIVE SkipWs(_, _)
SkipWs(s, i) == IF i <= Len(s) /\ IsSpace(s[i]) THEN SkipWs(s, i + 1) ELSE i

\* body of a string literal from position j, after the opening quote
RECURSIVE ScanString(_, _, _)
ScanString(s, j, acc) ==
    IF j > Len(s) THEN JFail
    ELSE IF s[j] = DQ THEN JOk(JStr(acc), j + 1)
    ELSE IF s[j] = BACKSLASH
         THEN IF j + 1 <= Len(s) /\ s[j + 1] \in {DQ, BACKSLASH, "n"}
              THEN ScanString(s, j + 2,
                       Append(acc, IF s[j + 1] = "n" THEN "\n" ELSE s[j + 1]))
              ELSE JFail
    ELSE IF s[j] \in {"\n", "\t"} THEN JFail
    ELSE ScanString(s, j + 1, Append(acc, s[j]))

RECURSIVE ScanNumber(_, _, _)
ScanNumber(s, j, acc) ==
    IF j <= Len(s) /\ s[j] \in Digits
    THEN ScanNumber(s, j + 1, Append(acc, s[j]))
    ELSE JOk(JNum(acc), j)

RECURSIVE ParseValue(_, _)
RECURSIVE ParseMembers(_, _, _, _, _)
RECURSIVE ParseItems(_, _, _, _)

\* one JSON value starting at position i (no leading whitespace)
ParseValue(s, i) ==
    IF i > Len(s) THEN JFail
    ELSE IF s[i] = DQ THEN ScanString(s, i + 1, <<>>)
    ELSE IF s[i] = "{" THEN ParseMembers(s, SkipWs(s, i + 1), <<>>, <<>>, TRUE)
    ELSE IF s[i] = "[" THEN ParseItems(s, SkipWs(s, i + 1), <<>>, TRUE)
    ELSE IF s[i] \in Digits THEN ScanNumber(s, i, <<>>)
    ELSE IF s[i] \in {"null", "true", "false"} THEN JOk(JLit(s[i]), i + 1)
    ELSE JFail

\* members of an object from position i, after "{" or ","
ParseMembers(s, i, ks, xs, first) ==
    IF i > Len(s) THEN JFail
    ELSE IF first /\ s[i] = "}" THEN JOk(JObj(ks, xs), i + 1)
    ELSE IF s[i] # DQ THEN JFail
    ELSE LET k == ScanString(s, i + 1, <<>>)
             c == SkipWs(s, k.next)
             v == ParseValue(s, SkipWs(s, c + 1))
             d == SkipWs(s, v.next)
         IN  IF ~k.ok \/ c > Len(s) THEN JFail
             ELSE IF s[c] # ":" THEN JFail
             ELSE IF ~v.ok \/ d > Len(s) THEN JFail
             ELSE IF s[d] = ","
                  THEN ParseMembers(s, SkipWs(s, d + 1),
                           Append(ks, k.val.s), Append(xs, v.val), FALSE)
             ELSE IF s[d] = "}"
                  THEN JOk(JObj(Append(ks, k.val.s), Append(xs, v.val)), d + 1)
             ELSE JFail

\* items of an array from position i, after "[" or ","
ParseItems(s, i, xs, first) ==
    IF i > Len(s) THEN JFail
    ELSE IF first /\ s[i] = "]" THEN JOk(JArr(xs), i + 1)
    ELSE LET v == ParseValue(s, i)
             d == SkipWs(s, v.next)
         IN  IF ~v.ok \/ d > Len(s) THEN JFail
             ELSE IF s[d] = "," THEN ParseItems(s, SkipWs(s, d + 1), Append(xs, v.val), FALSE)
             ELSE IF s[d] = "]" THEN JOk(JArr(Append(xs, v.val)), d + 1)
             ELSE JFail

\* json.loads(s): ok is FALSE where json.loads raises
json_loads(s) ==
    LET v == ParseValue(s, SkipWs(s, 1))
    IN  IF v.ok /\ SkipWs(s, v.next) > Len(s) THEN v ELSE JFail

\* dict.get(key): the last member of that name, None when absent
JGet(obj, key) ==
    IF \E k \in 1..Len(obj.keys) : obj.keys[k] = key
    THEN obj.items[CHOOSE k \in 1..Len(obj.keys) :
             obj.keys[k] = key /\ \A m \in (k + 1)..Len(obj.keys) : obj.keys[m] # key]
    ELSE JNull

\* str(x) for a decoded JSON value
PyStr(v) ==
    IF v.t \in {"str", "num"} THEN v.s
    ELSE IF v.t = "null" THEN <<"None">>
    ELSE IF v.t = "true" THEN <<"True">>
    ELSE IF v.t = "false" THEN <<"False">>
    ELSE <<"repr">>

\* the three backquotes of a code fence, one symbol
FENCE == "fence"
FenceTagChars == LatinLower \cup Upper \cup Digits \cup {"json", "_", "-"}

RECURSIVE SkipTag(_)
SkipTag(s) == IF s # <<>> /\ Head(s) \in FenceTagChars THEN SkipTag(Tail(s)) ELSE s

\* re.sub of the opening fence with its tag and following spaces, then re.sub of
\* the closing fence with its preceding spaces, then strip()
StripFence(s) ==
    LET a == LStrip(SkipTag(Tail(s)))
        b == IF a # <<>> /\ a[Len(a)] = FENCE
             THEN RStrip(SubSeq(a, 1, Len(a) - 1))
             ELSE a
    IN  Strip(b)

\* the decoded object, or JNull for None
extract_json_object(text) ==
    IF text = <<>> THEN JNull
    ELSE LET s0 == Strip(text)
             s == IF s0 # <<>> /\ Head(s0) = FENCE THEN StripFence(s0) ELSE s0
             whole == json_loads(s)
             start == Find(s, <<"{">>)
             end == RFind(s, <<"}">>)
             candidate == json_loads(SubSeq(s, start, end))
         IN  IF whole.ok
             THEN IF whole.val.t = "obj" THEN whole.val ELSE JNull
             ELSE IF start = 0 \/ end = 0 \/ end <= start THEN JNull
             ELSE IF candidate.ok /\ candidate.val.t = "obj" THEN candidate.val
             ELSE JNull

(***************************************************************************)
(* services/chat/internal/responses.py                                     *)
(***************************************************************************)
no_rag_fallback_answer ==
    <<"je", "gong", "doen", " ", "sang", "pum", " ", "jeong", "bo", "'e",
      "seo", " ", "dab", "byeon", "hal", " ", "geun", "geo", "reul", " ",
      "chaj", "ji", " ", "mos", "hae", " ", "jeong", "hwag", "hi", " ",
      "'an", "nae", "deu", "ri", "gi", " ", "'eo", "ryeob", "seub", "ni",
      "da", ".", " ", "sang", "pum", " ", "sang", "se", " ", "pe", "'i",
      "ji", "'ui", " ", "Q", "&", "A", "'e", " ", "jil", "mun", "'eul", " ",
      "nam", "gyeo", "ju", "si", "myeon", " ", "hwag", "'in", " ", "hu", " ",
      "dab", "byeon", "deu", "ril", "ge", "'yo", ".">>

build_chat_response(answer, sources, selected_engine, product_id, suggested_questions) ==
    [answer |-> answer,
     sources |-> sources,
     engine |-> selected_engine,
     product_id |-> product_id,
     suggested_questions |-> suggested_questions]

\* ctx.get("source_id") or "": a context without the key gives ""
CtxSourceId(ctx) == IF "source_id" \in DOMAIN ctx THEN ctx.source_id ELSE <<>>

\* the source entry that loses the id of its context
context_to_source_blank_id(ctx) ==
    [source_id |-> <<>>,
     content |-> ctx.content,
     type |-> ctx.type,
     score |-> ctx.score]

context_to_source(ctx) ==
    [source_id |-> CtxSourceId(ctx),
     content |-> ctx.content,
     type |-> ctx.type,
     score |-> ctx.score]

\* the stop response that carries a suggested question
build_no_rag_stop_response_suggesting(selected_engine, product_id) ==
    build_chat_response(no_rag_fallback_answer, <<>>, selected_engine, product_id,
                        <<no_rag_fallback_answer>>)

build_no_rag_stop_response(selected_engine, product_id) ==
    build_chat_response(no_rag_fallback_answer, <<>>, selected_engine, product_id, <<>>)

(***************************************************************************)
(* db: the products table and db/repository.py                             *)
(***************************************************************************)
NAME_EARPHONE ==
    <<"bang", "su", " ", "'i", "'eo", "pon">>

NAME_BLANKET ==
    <<"gyeo", "'ul", " ", "'i", "bul">>

NAME_NOODLE ==
    <<"mae", "'un", " ", "ssal", "gug", "su">>

DESC_EARPHONE ==
    <<"beul", "ru", "tu", "seu", " ", "'i", "'eo", "pon", ".", " ", "bae",
      "teo", "ri", " ", "8", "si", "gan">>

DESC_BLANKET ==
    <<"tta", "tteus", "han", " ", "gyeo", "'ul", " ", "'i", "bul">>

\* rows of the products table, by id
products ==
    [id \in {1, 2, 3} |->
        IF id = 1 THEN [id |-> 1, name |-> NAME_EARPHONE, description |-> DESC_EARPHONE]
        ELSE IF id = 2 THEN [id |-> 2, name |-> NAME_BLANKET, description |-> DESC_BLANKET]
        ELSE [id |-> 3, name |-> NAME_NOODLE, description |-> <<>>]]

\* the row as a one-element sequence, <<>> for None
get_product_by_id(product_id) ==
    IF product_id \in DOMAIN products THEN <<products[product_id]>> ELSE <<>>

\* rows of order_reviews
order_reviews == <<>>

\* SELECT ... FROM products WHERE description != '' ORDER BY id
RECURSIVE DescriptionTexts(_)
DescriptionTexts(ids) ==
    IF ids = {} THEN <<>>
    ELSE LET id == CHOOSE x \in ids : \A y \in ids : x <= y
         IN  (IF products[id].description # <<>>
              THEN <<[id |-> id, product_id |-> id, type |-> "description",
                      content |-> products[id].description]>>
              ELSE <<>>) \o DescriptionTexts(ids \ {id})

\* 'Q: ' || question || '\nA: ' || answer
QnaContent(question, answer) ==
    <<"Q", ":", " ">> \o question \o <<"\n", "A", ":", " ">> \o answer

get_all_product_texts(qna_rows) ==
    DescriptionTexts(DOMAIN products)
    \o [k \in 1..Len(order_reviews) |->
          [id |-> order_reviews[k].id, product_id |-> order_reviews[k].product_id,
           type |-> "review", content |-> order_reviews[k].review_text]]
    \o [k \in 1..Len(qna_rows) |->
          [id |-> qna_rows[k].id, product_id |-> qna_rows[k].product_id,
           type |-> "qna",
           content |-> QnaContent(qna_rows[k].question, qna_rows[k].answer)]]

(***************************************************************************)
(* rag/chunker.py, rag/vector_store.py, rag/retriever.py                   *)
(***************************************************************************)
\* chunk_text for a text of at most chunk_size characters, which every text
\* of this model is: the whitespace-normalised text as its only chunk
chunk_text(text) == <<NormalizeWs(text)>>

chunk_product_texts(product_texts) ==
    [k \in 1..Len(product_texts) |->
        [content |-> chunk_text(product_texts[k].content)[1],
         product_id |-> product_texts[k].product_id,
         type |-> product_texts[k].type,
         original_id |-> product_texts[k].id,
         chunk_index |-> 0]]

\* str(n) for 0 <= n <= 9
IntText(n) == <<CHOOSE d \in Digits : d = ToString(n)>>

\* f"{product_id}_{type}_{original_id}_{chunk_index}"
DocId(product_id, type, original_id, chunk_index) ==
    IntText(product_id) \o <<"_", type, "_">> \o IntText(original_id)
    \o <<"_">> \o IntText(chunk_index)

\* the collection after add_documents(documents) on an empty collection
add_documents(documents) ==
    [k \in 1..Len(documents) |->
        [id |-> DocId(documents[k].product_id, documents[k].type,
                      documents[k].original_id, documents[k].chunk_index),
         document |-> documents[k].content,
         metadata |-> [product_id |-> documents[k].product_id,
                       type |-> documents[k].type,
                       original_id |-> documents[k].original_id,
                       chunk_index |-> documents[k].chunk_index]]]

\* index_all_products: clear, load, chunk, add
index_all_products(qna_rows) ==
    add_documents(chunk_product_texts(get_all_product_texts(qna_rows)))

\* top_k of the retrieval of handle_chat
RETRIEVE_TOP_K == 5

\* 1000 / (1 + distance) for the distances the model draws
ScoreValues == {49, 50, 100, 180}

Min2(a, b) == IF a <= b THEN a ELSE b

\* collection.query(n_results = top_k, where product_id): the positions in the
\* collection of the n nearest documents of the product, nearest first, for
\* every ranking the embedding may give
QueryRankings(coll, product_id, top_k) ==
    LET match == {k \in 1..Len(coll) : coll[k].metadata.product_id = product_id}
        n == Min2(top_k, Cardinality(match))
    IN  {r \in [1..n -> match] : \A i, j \in 1..n : i # j => r[i] # r[j]}

\* the scores of n results, nearest first
QueryScores(n) ==
    {sc \in [1..n -> ScoreValues] : \A i, j \in 1..n : i < j => sc[i] >= sc[j]}

\* the documents list search_documents builds from one query result
search_documents(coll, ranking, scores) ==
    [i \in 1..Len(ranking) |->
        [content |-> coll[ranking[i]].document,
         type |-> coll[ranking[i]].metadata.type,
         score |-> scores[i],
         product_id |-> coll[ranking[i]].metadata.product_id]]

(***************************************************************************)
(* services/chat/internal/suggestions.py                                   *)
(***************************************************************************)
BLANKET ==
    <<"'i", "bul">>

NOODLE ==
    <<"ssal", "gug", "su">>

UNKNOWN_PRODUCT_QUESTIONS ==
    << <<"'i", " ", "je", "pum", "'ui", " ", "haeg", "sim", " ", "teug",
         "jing", "'eul", " ", "'al", "ryeo", "ju", "se", "'yo">>,
       <<"gu", "seong", "pum", "/", "'ob", "syeon", "'eun", " ", "'eo",
         "tteoh", "ge", " ", "doe", "na", "'yo", "?">>,
       <<"sa", "'i", "jeu", "/", "mu", "ge", "neun", " ", "'eo", "neu", " ",
         "jeong", "do", "'in", "ga", "'yo", "?">>,
       <<"sa", "'yong", "/", "gwan", "ri", " ", "bang", "beob", "'eul", " ",
         "'al", "ryeo", "ju", "se", "'yo">>,
       <<"bae", "song", "/", "gyo", "hwan", "/", "ban", "pum", "'eun", " ",
         "'eo", "tteoh", "ge", " ", "doe", "na", "'yo", "?">> >>

BLANKET_QUESTIONS(product_name) ==
    << product_name \o <<" ", "so", "jae", "neun", " ", "mu", "'eos", "'in", "ga", "'yo",
         "?">>,
       product_name \o <<" ", "se", "tag", "/", "gwan", "ri", " ", "bang", "beob", "'eun",
         " ", "'eo", "tteoh", "ge", " ", "doe", "na", "'yo", "?">>,
       product_name \o <<" ", "sa", "'i", "jeu", "/", "gu", "seong", " ", "'ob", "syeon",
         "'eul", " ", "'al", "ryeo", "ju", "se", "'yo">>,
       product_name \o <<" ", "du", "kke", "gam", "/", "gye", "jeol", "gam", "'eun", " ",
         "'eo", "tteon", "ga", "'yo", "?">>,
       <<"bae", "song", "/", "gyo", "hwan", "/", "ban", "pum", "'eun", " ",
         "'eo", "tteoh", "ge", " ", "doe", "na", "'yo", "?">> >>

NOODLE_QUESTIONS(product_name) ==
    << product_name \o <<" ", "jo", "ri", " ", "bang", "beob", "'eul", " ", "'al", "ryeo",
         "ju", "se", "'yo">>,
       product_name \o <<" ", "mae", "'un", " ", "jeong", "do", "ga", " ", "'eo", "tteon",
         "ga", "'yo", "?">>,
       product_name \o <<" ", "bo", "gwan", "/", "'yu", "tong", "gi", "han", "'eun", " ",
         "'eo", "tteoh", "ge", " ", "doe", "na", "'yo", "?">>,
       product_name \o <<" ", "1", "'in", "bun", " ", "gi", "jun", " ", "'yang", "'i", " ",
         "'eo", "neu", " ", "jeong", "do", "'in", "ga", "'yo", "?">>,
       <<"bae", "song", "/", "gyo", "hwan", "/", "ban", "pum", "'eun", " ",
         "'eo", "tteoh", "ge", " ", "doe", "na", "'yo", "?">> >>

OTHER_QUESTIONS(product_name) ==
    << product_name \o <<" ", "haeg", "sim", " ", "teug", "jing", "'eul", " ", "'al", "ryeo",
         "ju", "se", "'yo">>,
       product_name \o <<" ", "gu", "seong", "pum", "/", "'ob", "syeon", "'eun", " ", "'eo",
         "tteoh", "ge", " ", "doe", "na", "'yo", "?">>,
       product_name \o <<" ", "sa", "'i", "jeu", "/", "mu", "ge", "neun", " ", "'eo", "neu",
         " ", "jeong", "do", "'in", "ga", "'yo", "?">>,
       product_name \o <<" ", "sa", "'yong", "/", "gwan", "ri", " ", "bang", "beob", "'eul",
         " ", "'al", "ryeo", "ju", "se", "'yo">>,
       <<"bae", "song", "/", "gyo", "hwan", "/", "ban", "pum", "'eun", " ",
         "'eo", "tteoh", "ge", " ", "doe", "na", "'yo", "?">> >>

\* sum(1 for tok in tokens if tok in t): a token occurring twice counts twice
\* the score that counts nothing
question_match_score_zero(query, question) == 0

question_match_score(query, question) ==
    IF query = <<>> \/ question = <<>> THEN 0
    ELSE LET tokens == QueryTokens(query)
             t == Lower(question)
         IN  Cardinality({k \in 1..Len(tokens) : Contains(t, tokens[k])})

get_default_questions(product_id) ==
    LET product == get_product_by_id(product_id)
    IN  IF product = <<>> THEN UNKNOWN_PRODUCT_QUESTIONS
        ELSE IF Contains(product[1].name, BLANKET) THEN BLANKET_QUESTIONS(product[1].name)
        ELSE IF Contains(product[1].name, NOODLE) THEN NOODLE_QUESTIONS(product[1].name)
        ELSE OTHER_QUESTIONS(product[1].name)

\* scored.sort(key=lambda x: (-x[1], x[2])): the candidate positions idx in order
RECURSIVE SortScored(_, _)
SortScored(idx, score) ==
    IF idx = {} THEN <<>>
    ELSE LET b == CHOOSE i \in idx :
                    \A j \in idx : score[i] > score[j] \/ (score[i] = score[j] /\ i <= j)
         IN  <<b>> \o SortScored(idx \ {b}, score)

\* s[:k]
PySlice(s, k) ==
    IF k >= 0 THEN SubSeq(s, 1, Min2(k, Len(s))) ELSE SubSeq(s, 1, Len(s) + k)

\* the suggestions without the exclusion of asked questions
suggest_related_questions_unfiltered(user_query, product_id, asked_questions, top_k) ==
    LET candidates == get_default_questions(product_id)
        score == [i \in 1..Len(candidates) |->
                    question_match_score(user_query, candidates[i])]
        order == SortScored(1..Len(candidates), score)
    IN  PySlice([i \in 1..Len(order) |-> candidates[order[i]]], top_k)

suggest_related_questions(user_query, product_id, asked_questions, top_k) ==
    LET defaults == get_default_questions(product_id)
        candidates == SelectIn(defaults, Range(defaults) \ Range(asked_questions))
        score == [i \in 1..Len(candidates) |->
                    question_match_score(user_query, candidates[i])]
        order == SortScored(1..Len(candidates), score)
    IN  IF candidates = <<>> THEN <<>>
        ELSE PySlice([i \in 1..Len(order) |-> candidates[order[i]]], top_k)

(***************************************************************************)
(* The inputs of the model                                                 *)
(***************************************************************************)
QRY_WATERPROOF ==
    <<"bang", "su", " ", "doe", "na", "'yo", "?">>

QRY_STOP_ONLY ==
    <<"'eo", "tteoh", "ge", " ", "doe", "na", "'yo", "?">>

QRY_DELIVERY ==
    <<"bae", "song", " ", "gi", "gan">>

QRY_SIZE_DELIVERY ==
    <<"bae", "song", " ", "sa", "'i", "jeu", " ", "mu", "ge">>

\* the queries of a request
Queries == {QRY_WATERPROOF, QRY_STOP_ONLY}

\* the queries of a suggestion call
SuggestQueries == Queries \cup {QRY_DELIVERY, QRY_SIZE_DELIVERY, <<>>}

QNA_Q_WATERPROOF ==
    <<"bang", "su", " ", "gi", "neung", "'i", " ", "'iss", "na", "'yo", "?">>

QNA_A_WATERPROOF ==
    <<"ne", ",", " ", "I", "P", "X", "7", " ", "deung", "geub", "'ib", "ni",
      "da", ".">>

QNA_Q_WITH_A_MARK ==
    <<"bang", "su", " ", "A", ":", " ", "ta", "'ib", " ", "doe", "na", "'yo",
      "?">>

QNA_A_YES ==
    <<"ne">>

QNA_A_WITH_MARKS ==
    <<"Q", ":", " ", "A", ":", " ", "cham", "go">>

QNA_A_TWO_LINES ==
    <<"ne", ",", "\n", "I", "P", "X", "7">>

QNA_Q_WEIGHT ==
    <<"mu", "ge", "neun", " ", "'eol", "ma", "'in", "ga", "'yo", "?">>

QNA_A_WEIGHT ==
    <<"2", "0", "0", "g">>

\* the (question, answer) pairs a seller may have stored in product_qna
QnaPairs ==
    { <<QNA_Q_WATERPROOF, QNA_A_WATERPROOF>>,
      <<QNA_Q_WITH_A_MARK, QNA_A_YES>>,
      <<QNA_Q_WATERPROOF, QNA_A_WITH_MARKS>>,
      <<QNA_Q_WATERPROOF, QNA_A_TWO_LINES>>,
      <<QNA_Q_WATERPROOF, <<>> >>,
      <<QNA_Q_WEIGHT, QNA_A_WEIGHT>> }

\* the product ids of a request: two rows of products and an id of no row
ProductIds == {1, 2, 9}

\* the engine names of a request
Engines == {"gemini", "local", "Gemini", ""}

\* the conversation_history lists of a request to product_id
Histories(product_id) == {<<>>, <<get_default_questions(product_id)[1]>>}

LLM_ANSWER ==
    <<"8", "si", "gan">>

KEY_ANSWER == <<"answer">>
KEY_USED == <<"used_source_ids">>

\* the text of a JSON string, array of strings and contract object
JsonString(x) == <<DQ>> \o x \o <<DQ>>

RECURSIVE JsonStrings(_)
JsonStrings(xs) ==
    IF xs = <<>> THEN <<>>
    ELSE JsonString(Head(xs)) \o (IF Len(xs) > 1 THEN <<",">> ELSE <<>>)
         \o JsonStrings(Tail(xs))

JsonContract(answer, ids) ==
    <<"{">> \o JsonString(KEY_ANSWER) \o <<":">> \o JsonString(answer) \o <<",">>
    \o JsonString(KEY_USED) \o <<":", "[">> \o JsonStrings(ids) \o <<"]", "}">>

ID_EARPHONE_DESC == DocId(1, "description", 1, 0)
ID_INVENTED == <<"p", "9">>

\* texts the generation backend may return
RAW_CITES_ONE == JsonContract(LLM_ANSWER, <<ID_EARPHONE_DESC>>)
RAW_CITES_INVENTED == JsonContract(LLM_ANSWER, <<ID_INVENTED, <<>> >>)
RAW_FENCED == <<FENCE, "json", "\n">> \o RAW_CITES_ONE \o <<"\n", FENCE>>
RAW_IN_PROSE == <<"n", "e", " ">> \o RAW_CITES_ONE \o <<" ", ".">>
RAW_EMPTY == <<>>
RAW_BLANK == <<" ", "\n">>
RAW_NO_ANSWER ==
    <<"{">> \o JsonString(KEY_USED) \o <<":", "[">>
    \o JsonStrings(<<ID_EARPHONE_DESC>>) \o <<"]", "}">>
RAW_BLANK_ANSWER == JsonContract(<<" ">>, <<>>)
RAW_NUMBER_ANSWER ==
    <<"{">> \o JsonString(KEY_ANSWER) \o <<":", "7", ",">>
    \o JsonString(KEY_USED) \o <<":", "[", "7", "]", "}">>
RAW_FREE_TEXT == LLM_ANSWER
RAW_META_TWICE == META_PHRASE \o <<" ">> \o META_PHRASE
RAW_GARBAGE_ANSWER ==
    JsonContract(<<"Q", ":", " ", "x", " ", "A", ":", " ", "y">>, <<ID_EARPHONE_DESC>>)
RAW_ONE_FLAG == JsonContract(<<"[type]", " ">> \o LLM_ANSWER, <<ID_EARPHONE_DESC>>)
RAW_TRUNCATED == <<"{">> \o JsonString(KEY_ANSWER) \o <<":", DQ>> \o LLM_ANSWER
RAW_ARRAY == <<"[">> \o JsonString(LLM_ANSWER) \o <<"]">>
RAW_OBJECT_IN_ARRAY == <<"[">> \o RAW_CITES_ONE \o <<"]">>

RawTexts ==
    { RAW_CITES_ONE, RAW_CITES_INVENTED, RAW_FENCED, RAW_IN_PROSE, RAW_EMPTY,
      RAW_BLANK, RAW_NO_ANSWER, RAW_BLANK_ANSWER, RAW_NUMBER_ANSWER,
      RAW_FREE_TEXT, RAW_META_TWICE, RAW_GARBAGE_ANSWER, RAW_ONE_FLAG,
      RAW_TRUNCATED, RAW_ARRAY, RAW_OBJECT_IN_ARRAY }

(***************************************************************************)
(* State                                                                   *)
(***************************************************************************)
VARIABLES
    DIRECT_QNA_ENABLED,    \* constants.py: the flag read from the environment
    gemini_available,      \* is_gemini_available() of this process
    product_qna,           \* rows of the product_qna table
    collection,            \* documents of the vector collection
    query,                 \* request: the user's question
    product_id,            \* request: the item
    engine,                \* request: the backend name
    conversation_history,  \* request: questions already asked
    top_k,                 \* top_k of the suggestion call
    pc,                    \* position of the turn in handle_chat
    selected_engine,       \* handle_chat local
    hits,                  \* ids of the query result, nearest first
    contexts,              \* handle_chat local
    prompt,                \* handle_chat local
    raw_text,              \* handle_chat local
    answer,                \* handle_chat local
    used_source_ids,       \* handle_chat local
    sources,               \* handle_chat local
    suggested,             \* handle_chat local / result of the suggestion call
    response,              \* <<the dict returned>>, <<>> before the return
    status,                \* status_code of the HTTPException raised, 0 if none
    returned_at,           \* the return statement taken
    gate,                  \* branch taken in _build_stop_response_if_needed
    retrieve_calls,        \* calls of retrieve_context in the turn
    llm_calls,             \* calls of generate_answer in the turn
    probe_calls,           \* calls of get_available_engines in the turn
    lookup_calls,          \* calls of get_product_by_id in the turn
    arg,                   \* direct call of a helper: its argument
    result,                \* direct call of a helper: the value returned
    detail,                \* detail of the HTTPException raised, <<>> if none
    raised,                \* <<str(e)>> of the exception a step raised
    local_available,       \* is_local_model_available() of this process
    served_by,             \* the engine whose generate function was called
    use_sdk,               \* gemini_engine: the SDK model is initialised
    rest_configured,       \* gemini_engine: _gemini_api_key and _gemini_model_name
    text_1,                \* generate_gemini local: <<the SDK's text>>
    rest_calls,            \* calls of _rest_generate_content in one generate_gemini
    rest_site,             \* line of generate_gemini that made the running call
    attempt,               \* _rest_generate_content: the loop variable
    http_codes,            \* outcomes of the urlopen calls of the running call
    waits,                 \* seconds slept by the running call, in order
    rest_result,           \* <<"return", text>> or <<"raise", message>> of the call
    gen_result,            \* the same for generate_gemini
    chunk_size,            \* chunk_text: argument
    chunk_overlap,         \* chunk_text: argument
    ctext,                 \* chunk_text: text after the normalisation of line 27
    chunk_start,           \* chunk_text: start
    chunks,                \* chunk_text: chunks
    starts,                \* values of start at the loop head so far
    slices,                \* the <<start, end>> of the slices taken so far
    indexed,               \* retriever.py: _indexed
    index_writer,          \* the turn that built the index, 0 for the startup
    index_readers,         \* the turns that have searched the index
    other_pc,              \* a second turn of the same process: its position
    other_product_id,      \* the second turn's product_id
    other_hits,            \* the second turn's retrieved ids
    api_response           \* what api/chat.py returns for the turn's request

gemini_vars ==
    <<use_sdk, rest_configured, text_1, rest_calls, rest_site, attempt,
      http_codes, waits, rest_result, gen_result>>

chunk_vars ==
    <<chunk_size, chunk_overlap, ctext, chunk_start, chunks, starts, slices>>

\* the state of the process that outlives a turn, and a second turn
conc_vars ==
    <<indexed, index_writer, index_readers, other_pc, other_product_id, other_hits>>

api_vars == <<api_response>>

\* state of the library functions called on their own
lib_vars == <<gemini_vars, chunk_vars, conc_vars, api_vars>>

\* no call of generate_gemini is running
GeminiIdle ==
    /\ use_sdk = FALSE
    /\ rest_configured = TRUE
    /\ text_1 = <<>>
    /\ rest_calls = 0
    /\ rest_site = 0
    /\ attempt = 0
    /\ http_codes = <<>>
    /\ waits = <<>>
    /\ rest_result = <<>>
    /\ gen_result = <<>>

\* no call of chunk_text is running
ChunkIdle ==
    /\ chunk_size = 500
    /\ chunk_overlap = 50
    /\ ctext = <<>>
    /\ chunk_start = 0
    /\ chunks = <<>>
    /\ starts = <<>>
    /\ slices = <<>>

\* main.py lines 44-62: the index was built at startup; no second turn
ConcIdle ==
    /\ indexed = TRUE
    /\ index_writer = 0
    /\ index_readers = {}
    /\ other_pc = "none"
    /\ other_product_id = 0
    /\ other_hits = <<>>

\* the endpoint of api/chat.py has not been called
ApiIdle == api_response = <<>>

LibIdle ==
    /\ GeminiIdle
    /\ ChunkIdle
    /\ ConcIdle
    /\ ApiIdle

vars ==
    <<DIRECT_QNA_ENABLED, gemini_available, product_qna, collection, query,
      product_id, engine, conversation_history, top_k, pc, selected_engine, hits,
      contexts, prompt, raw_text, answer, used_source_ids, sources, suggested,
      response, status, returned_at, gate, retrieve_calls, llm_calls,
      probe_calls, lookup_calls, arg, result, detail, raised, local_available,
      served_by, lib_vars>>

call_vars == <<arg, result>>
error_vars == <<detail, raised>>
backend_vars == <<local_available, served_by>>
probe_vars == <<probe_calls, lookup_calls>>
env_vars == <<DIRECT_QNA_ENABLED, gemini_available, product_qna, collection>>
request_vars == <<query, product_id, engine, conversation_history, top_k>>

(***************************************************************************)
(* services/chat_service.py                                                *)
(***************************************************************************)
\* detail of the HTTPException of line 42, of lines 48-54 and of line 286
DETAIL_400 == "engine-eun 'gemini'yeoya hamnida."
DETAIL_503 == "hyeonjae gemini enjin-eul sayonghal su eopseumnida."
DETAIL_500 == "chaetbot cheori jung oryuga balsaenghaetseumnida."

\* detail of the HTTPException with the given status_code
DetailOf(code) ==
    CASE code = 400 -> <<DETAIL_400>>
      [] code = 503 -> <<DETAIL_503>>
      [] code = 500 -> <<DETAIL_500>>
      [] OTHER -> <<>>

\* str(e) of exceptions the retrieval, the generation call and the item
\* lookup raise
RetrievalErrors ==
    {"Collection chatbot_products does not exist.", "database is locked"}
GenerationErrors ==
    {"Gemini API hochul jung oryuga balsaenghaetseumnida.",
     "Gemini API hochuri 429(Quota/Rate limit)euro silpaehaetseumnida."}
UNAVAILABLE_ERROR == "Gemini APIreul sayonghal su eopseumnida."
LookupErrors == {"no such table: products", "database is locked"}

\* the test of availability made before the test of the name
ensure_engine_available_probe_first(requested, available) ==
    IF ~available THEN 503
    ELSE IF requested # "gemini" THEN 400
    ELSE 0

\* status_code raised by _ensure_engine_available, 0 when it returns
ensure_engine_available(requested, available) ==
    IF requested # "gemini" THEN 400
    ELSE IF ~available THEN 503
    ELSE 0

\* max((ctx.get("score", 0.0) for ctx in contexts), default=0.0)
BestScore(ctxs) ==
    IF ctxs = <<>> THEN 0
    ELSE CHOOSE m \in {ctxs[i].score : i \in 1..Len(ctxs)} :
            \A i \in 1..Len(ctxs) : ctxs[i].score <= m

\* the gate with <= in place of <
GateBranch_le(ctxs) ==
    IF ctxs = <<>> THEN "STOP_NO_EVIDENCE"
    ELSE IF BestScore(ctxs) <= MIN_CONTEXT_SCORE THEN "STOP_LOW_CONFIDENCE"
    ELSE "PROCEED"

\* the branch _build_stop_response_if_needed takes
GateBranch(ctxs) ==
    IF ctxs = <<>> THEN "STOP_NO_EVIDENCE"
    ELSE IF BestScore(ctxs) < MIN_CONTEXT_SCORE THEN "STOP_LOW_CONFIDENCE"
    ELSE "PROCEED"

\* the stop response without the low-confidence branch
build_stop_response_if_needed_empty_only(ctxs, sel_engine, pid) ==
    IF ctxs = <<>> THEN <<build_no_rag_stop_response(sel_engine, pid)>> ELSE <<>>

\* <<response>>, <<>> for None
build_stop_response_if_needed(ctxs, sel_engine, pid) ==
    IF GateBranch(ctxs) = "PROCEED" THEN <<>>
    ELSE <<build_no_rag_stop_response(sel_engine, pid)>>

\* max(contexts, key=lambda c: c.get("score", 0.0)): the first of the maxima
BestCtx(ctxs) ==
    ctxs[CHOOSE i \in 1..Len(ctxs) :
            /\ \A j \in 1..Len(ctxs) : ctxs[j].score <= ctxs[i].score
            /\ \A j \in 1..(i - 1) : ctxs[j].score < ctxs[i].score]

\* the shortcut that does not read the flag
try_direct_qna_answer_always(qry, ctxs, sel_engine, pid) ==
    IF ctxs = <<>> THEN <<>>
    ELSE LET best_ctx == BestCtx(ctxs)
             qna_question == extract_qna_question(best_ctx.content)
             direct == extract_qna_answer(best_ctx.content)
         IN  IF ~(best_ctx.type = "qna" /\ best_ctx.score >= DIRECT_QNA_MIN_SCORE)
             THEN <<>>
             ELSE IF ~(keyword_overlap(qry, qna_question)
                       /\ best_ctx.score >= DIRECT_QNA_STRONG_SCORE)
             THEN <<>>
             ELSE IF direct = <<>> THEN <<>>
             ELSE <<build_chat_response(direct, <<context_to_source(best_ctx)>>,
                                        sel_engine, pid, <<>>)>>

\* <<response>>, <<>> for None
try_direct_qna_answer(qry, ctxs, sel_engine, pid) ==
    IF ~DIRECT_QNA_ENABLED THEN <<>>
    ELSE IF ctxs = <<>> THEN <<>>
    ELSE LET best_ctx == BestCtx(ctxs)
             qna_question == extract_qna_question(best_ctx.content)
             direct == extract_qna_answer(best_ctx.content)
         IN  IF ~(best_ctx.type = "qna" /\ best_ctx.score >= DIRECT_QNA_MIN_SCORE)
             THEN <<>>
             ELSE IF ~(keyword_overlap(qry, qna_question)
                       /\ best_ctx.score >= DIRECT_QNA_STRONG_SCORE)
             THEN <<>>
             ELSE IF direct = <<>> THEN <<>>
             ELSE <<build_chat_response(direct, <<context_to_source(best_ctx)>>,
                                        sel_engine, pid, <<>>)>>

\* build_prompt_with_source_selection: the source_id lines and the query
build_prompt(qry, ctxs, pid) ==
    [source_ids |-> [i \in 1..Len(ctxs) |-> CtxSourceId(ctxs[i])], query |-> qry]

\* [str(x) for x in parsed_used if str(x).strip()]
RECURSIVE UsedIds(_)
UsedIds(items) ==
    IF items = <<>> THEN <<>>
    ELSE (IF Strip(PyStr(Head(items))) # <<>> THEN <<PyStr(Head(items))>> ELSE <<>>)
         \o UsedIds(Tail(items))

\* the parse that keeps the answer string as decoded, without strip()
parse_llm_output_unstripped(raw) ==
    LET parsed == extract_json_object(raw)
        parsed_answer == JGet(parsed, KEY_ANSWER)
        parsed_used == JGet(parsed, KEY_USED)
    IN  IF parsed.t = "obj"
        THEN [answer |-> IF parsed_answer.t = "str" /\ Strip(parsed_answer.s) # <<>>
                         THEN parsed_answer.s
                         ELSE raw,
              used_source_ids |-> IF parsed_used.t = "arr"
                                  THEN UsedIds(parsed_used.items)
                                  ELSE <<>>]
        ELSE [answer |-> raw, used_source_ids |-> <<>>]

parse_llm_output(raw) ==
    LET parsed == extract_json_object(raw)
        parsed_answer == JGet(parsed, KEY_ANSWER)
        parsed_used == JGet(parsed, KEY_USED)
    IN  IF parsed.t = "obj"
        THEN [answer |-> IF parsed_answer.t = "str" /\ Strip(parsed_answer.s) # <<>>
                         THEN Strip(parsed_answer.s)
                         ELSE raw,
              used_source_ids |-> IF parsed_used.t = "arr"
                                  THEN UsedIds(parsed_used.items)
                                  ELSE <<>>]
        ELSE [answer |-> raw, used_source_ids |-> <<>>]

RECURSIVE filter_sources_by_used_ids(_, _)
filter_sources_by_used_ids(ctxs, used) ==
    IF ctxs = <<>> THEN <<>>
    ELSE (IF CtxSourceId(Head(ctxs)) \in Range(used)
          THEN <<context_to_source(Head(ctxs))>>
          ELSE <<>>) \o filter_sources_by_used_ids(Tail(ctxs), used)

\* top_k of the suggestion call of handle_chat
SUGGEST_TOP_K == 2

(***************************************************************************)
(* One turn of handle_chat                                                 *)
(***************************************************************************)
TurnLocalsInit ==
    /\ selected_engine = ""
    /\ hits = <<>>
    /\ contexts = <<>>
    /\ prompt = <<>>
    /\ raw_text = <<>>
    /\ answer = <<>>
    /\ used_source_ids = <<>>
    /\ sources = <<>>
    /\ suggested = <<>>
    /\ response = <<>>
    /\ status = 0
    /\ returned_at = "none"
    /\ gate = "none"
    /\ retrieve_calls = 0
    /\ llm_calls = 0
    /\ probe_calls = 0
    /\ lookup_calls = 0
    /\ detail = <<>>
    /\ raised = <<>>
    /\ served_by = ""

\* a request that reaches handle_chat
InitRequest ==
    /\ DIRECT_QNA_ENABLED \in BOOLEAN
    /\ gemini_available \in BOOLEAN
    /\ \E qa \in QnaPairs :
          product_qna = <<[id |-> 1, product_id |-> 1, question |-> qa[1], answer |-> qa[2]]>>
    /\ collection = index_all_products(product_qna)
    /\ query \in Queries
    /\ product_id \in ProductIds
    /\ engine \in Engines
    /\ conversation_history \in Histories(product_id)
    /\ top_k = SUGGEST_TOP_K
    /\ pc = "ensure"
    /\ arg = <<>>
    /\ result = <<>>
    /\ TurnLocalsInit
    /\ LibIdle

\* the deployment without a local model
Init ==
    /\ InitRequest
    /\ local_available = FALSE

\* step 0 that goes on whatever get_available_engines reports
EnsureEngineAvailable_ignoring_probe ==
    /\ pc = "ensure"
    /\ IF engine # "gemini"
       THEN /\ status' = 400
            /\ detail' = DetailOf(400)
            /\ pc' = "error"
            /\ UNCHANGED selected_engine
       ELSE /\ selected_engine' = engine
            /\ pc' = "retrieve"
            /\ UNCHANGED <<status, detail>>
    /\ probe_calls' = IF engine # "gemini" THEN probe_calls ELSE probe_calls + 1
    /\ UNCHANGED <<raised, backend_vars, lib_vars, env_vars, request_vars, call_vars, lookup_calls, hits,
                   contexts, prompt, raw_text, answer, used_source_ids, sources,
                   suggested, response, returned_at, gate, retrieve_calls, llm_calls>>

\* step 0: _ensure_engine_available; get_available_engines is called after
\* the test of the name
EnsureEngineAvailable ==
    /\ pc = "ensure"
    /\ LET code == ensure_engine_available(engine, gemini_available)
       IN  IF code # 0
           THEN /\ status' = code
                /\ detail' = DetailOf(code)
                /\ pc' = "error"
                /\ UNCHANGED selected_engine
           ELSE /\ selected_engine' = engine
                /\ pc' = "retrieve"
                /\ UNCHANGED <<status, detail>>
    /\ probe_calls' = IF engine # "gemini" THEN probe_calls ELSE probe_calls + 1
    /\ UNCHANGED <<raised, backend_vars, lib_vars, env_vars, request_vars, call_vars, lookup_calls, hits, contexts, prompt, raw_text, answer,
                   used_source_ids, sources, suggested, response, returned_at, gate,
                   retrieve_calls, llm_calls>>

\* step 1: _retrieve_contexts
\* retriever.py lines 91-92: the index a retrieval searches, built first when
\* _indexed is not set
lazy_index(flag, coll, qna_rows) ==
    IF flag THEN coll ELSE index_all_products(qna_rows)

\* the retrieval searches whatever the collection holds
RetrieveContexts_no_lazy_index ==
    /\ pc = "retrieve"
    /\ \E coll \in {collection} :
           /\ \E ranking \in QueryRankings(coll, product_id, RETRIEVE_TOP_K) :
              \E scores \in QueryScores(Len(ranking)) :
                 /\ hits' = [i \in 1..Len(ranking) |-> coll[ranking[i]].id]
                 /\ contexts' = search_documents(coll, ranking, scores)
           /\ collection' = coll
    /\ indexed' = TRUE
    /\ index_writer' = IF indexed THEN index_writer ELSE 1
    /\ index_readers' = index_readers \cup {1}
    /\ retrieve_calls' = retrieve_calls + 1
    /\ pc' = "gate"
    /\ UNCHANGED <<DIRECT_QNA_ENABLED, gemini_available, product_qna>>
    /\ UNCHANGED <<other_pc, other_product_id, other_hits>>
    /\ UNCHANGED <<api_vars, error_vars, backend_vars, gemini_vars, chunk_vars, request_vars,
                   call_vars, probe_vars, selected_engine, prompt, raw_text, answer,
                   used_source_ids, sources, suggested, response, status, returned_at,
                   gate, llm_calls>>

\* step 1: retrieve_context (retriever.py lines 91-101), no await inside
RetrieveContexts ==
    /\ pc = "retrieve"
    /\ \E coll \in {lazy_index(indexed, collection, product_qna)} :
           /\ \E ranking \in QueryRankings(coll, product_id, RETRIEVE_TOP_K) :
              \E scores \in QueryScores(Len(ranking)) :
                 /\ hits' = [i \in 1..Len(ranking) |-> coll[ranking[i]].id]
                 /\ contexts' = search_documents(coll, ranking, scores)
           /\ collection' = coll
    /\ indexed' = TRUE
    /\ index_writer' = IF indexed THEN index_writer ELSE 1
    /\ index_readers' = index_readers \cup {1}
    /\ retrieve_calls' = retrieve_calls + 1
    /\ pc' = "gate"
    /\ UNCHANGED <<DIRECT_QNA_ENABLED, gemini_available, product_qna>>
    /\ UNCHANGED <<other_pc, other_product_id, other_hits>>
    /\ UNCHANGED <<api_vars, error_vars, backend_vars, gemini_vars, chunk_vars, request_vars,
                   call_vars, probe_vars, selected_engine, prompt, raw_text, answer,
                   used_source_ids, sources, suggested, response, status, returned_at,
                   gate, llm_calls>>

\* step 1 when retrieve_context raises and str(e) is passed on as the detail
RetrieveRaises_forwarding ==
    /\ pc = "retrieve"
    /\ retrieve_calls' = retrieve_calls + 1
    /\ status' = 500
    /\ \E e \in RetrievalErrors : raised' = <<e>> /\ detail' = <<e>>
    /\ pc' = "error"
    /\ UNCHANGED <<backend_vars, lib_vars, env_vars, request_vars, call_vars, probe_vars, selected_engine,
                   hits, contexts, prompt, raw_text, answer, used_source_ids,
                   sources, suggested, response, returned_at, gate, llm_calls>>

\* step 1 when retrieve_context raises: except Exception turns it into a 500
RetrieveRaises ==
    /\ pc = "retrieve"
    /\ retrieve_calls' = retrieve_calls + 1
    /\ status' = 500
    /\ detail' = DetailOf(500)
    /\ \E e \in RetrievalErrors : raised' = <<e>>
    /\ pc' = "error"
    /\ UNCHANGED <<backend_vars, lib_vars, env_vars, request_vars, call_vars, probe_vars, selected_engine,
                   hits, contexts, prompt, raw_text, answer, used_source_ids,
                   sources, suggested, response, returned_at, gate, llm_calls>>

\* step 2: _build_stop_response_if_needed
Gate ==
    /\ pc = "gate"
    /\ gate' = GateBranch(contexts)
    /\ LET stop_response ==
               build_stop_response_if_needed(contexts, selected_engine, product_id)
       IN  IF stop_response # <<>>
           THEN /\ response' = stop_response
                /\ returned_at' = "stop"
                /\ pc' = "done"
           ELSE /\ pc' = "direct"
                /\ UNCHANGED <<response, returned_at>>
    /\ UNCHANGED <<error_vars, backend_vars, lib_vars, env_vars, request_vars, call_vars, probe_vars, selected_engine, hits, contexts, prompt,
                   raw_text, answer, used_source_ids, sources, suggested, status,
                   retrieve_calls, llm_calls>>

\* step 3 with every context listed as a source of the shortcut's response
TryDirectQnaAnswer_all_sources ==
    /\ pc = "direct"
    /\ LET direct_response ==
               try_direct_qna_answer(query, contexts, selected_engine, product_id)
       IN  IF direct_response # <<>>
           THEN /\ response' = <<[direct_response[1] EXCEPT !.sources =
                        [i \in 1..Len(contexts) |-> context_to_source(contexts[i])]]>>
                /\ returned_at' = "direct"
                /\ pc' = "done"
           ELSE /\ pc' = "prompt"
                /\ UNCHANGED <<response, returned_at>>
    /\ UNCHANGED <<error_vars, backend_vars, lib_vars, env_vars, request_vars, call_vars, probe_vars, selected_engine, hits, contexts, prompt,
                   raw_text, answer, used_source_ids, sources, suggested, status, gate,
                   retrieve_calls, llm_calls>>

\* step 3: _try_direct_qna_answer
TryDirectQnaAnswer ==
    /\ pc = "direct"
    /\ LET direct_response ==
               try_direct_qna_answer(query, contexts, selected_engine, product_id)
       IN  IF direct_response # <<>>
           THEN /\ response' = direct_response
                /\ returned_at' = "direct"
                /\ pc' = "done"
           ELSE /\ pc' = "prompt"
                /\ UNCHANGED <<response, returned_at>>
    /\ UNCHANGED <<error_vars, backend_vars, lib_vars, env_vars, request_vars, call_vars, probe_vars, selected_engine, hits, contexts, prompt,
                   raw_text, answer, used_source_ids, sources, suggested, status, gate,
                   retrieve_calls, llm_calls>>

\* step 4: _build_prompt
BuildPrompt ==
    /\ pc = "prompt"
    /\ prompt' = <<build_prompt(query, contexts, product_id)>>
    /\ pc' = "llm"
    /\ UNCHANGED <<error_vars, backend_vars, lib_vars, env_vars, request_vars, call_vars, probe_vars, selected_engine, hits, contexts, raw_text,
                   answer, used_source_ids, sources, suggested, response, status,
                   returned_at, gate, retrieve_calls, llm_calls>>

\* generate_answer: the engine whose generate function is called, "" when
\* RuntimeError is raised before any is called
generate_answer_engine(requested, gemini_ok, local_ok) ==
    IF requested = "gemini"
    THEN IF gemini_ok THEN "gemini"
         ELSE IF local_ok THEN "local" ELSE ""
    ELSE IF requested = "local" /\ local_ok THEN "local" ELSE ""

\* step 5: _run_llm, the backend returning any of its texts
RunLlm ==
    /\ pc = "llm"
    /\ gemini_available \/ local_available
    /\ served_by' = generate_answer_engine(selected_engine, gemini_available,
                                          local_available)
    /\ raw_text' \in RawTexts
    /\ llm_calls' = llm_calls + 1
    /\ pc' = "parse"
    /\ UNCHANGED <<error_vars, local_available, lib_vars, env_vars, request_vars,
                   call_vars, probe_vars, selected_engine, hits, contexts, prompt,
                   answer, used_source_ids, sources, suggested, response, status,
                   returned_at, gate, retrieve_calls>>

\* step 5 that calls generate_answer again after it raised
RunLlmRaises_retry ==
    /\ pc = "llm"
    /\ llm_calls < 2
    /\ llm_calls' = llm_calls + 1
    /\ UNCHANGED <<error_vars, backend_vars, lib_vars, env_vars, request_vars, call_vars, probe_vars, selected_engine,
                   hits, contexts, prompt, raw_text, answer, used_source_ids,
                   sources, suggested, response, status, returned_at, gate,
                   retrieve_calls, pc>>

\* step 5 when generate_answer raises: except Exception turns it into a 500
RunLlmRaises ==
    /\ pc = "llm"
    /\ served_by' = generate_answer_engine(selected_engine, gemini_available,
                                          local_available)
    /\ llm_calls' = llm_calls + 1
    /\ status' = 500
    /\ detail' = DetailOf(500)
    /\ \E e \in (IF gemini_available \/ local_available
                  THEN GenerationErrors ELSE {UNAVAILABLE_ERROR}) :
          raised' = <<e>>
    /\ pc' = "error"
    /\ UNCHANGED <<local_available, lib_vars, env_vars, request_vars, call_vars,
                   probe_vars, selected_engine, hits, contexts, prompt, raw_text,
                   answer, used_source_ids, sources, suggested, response,
                   returned_at, gate, retrieve_calls>>

\* step 6 that raises on a text without a JSON object
ParseLlmOutput_raising ==
    /\ pc = "parse"
    /\ LET parsed == parse_llm_output(raw_text)
       IN  IF extract_json_object(raw_text).t = "obj"
           THEN /\ answer' = parsed.answer
                /\ used_source_ids' = parsed.used_source_ids
                /\ pc' = "guard"
                /\ UNCHANGED <<status, error_vars>>
           ELSE /\ status' = 500
                /\ detail' = DetailOf(500)
                /\ raised' = <<"Expecting value: line 1 column 1 (char 0)">>
                /\ pc' = "error"
                /\ UNCHANGED <<answer, used_source_ids>>
    /\ UNCHANGED <<backend_vars, lib_vars, env_vars, request_vars, call_vars,
                   probe_vars, selected_engine, hits, contexts, prompt, raw_text,
                   sources, suggested, response, returned_at, gate,
                   retrieve_calls, llm_calls>>

\* step 6: _parse_llm_output
ParseLlmOutput ==
    /\ pc = "parse"
    /\ LET parsed == parse_llm_output(raw_text)
       IN  /\ answer' = parsed.answer
           /\ used_source_ids' = parsed.used_source_ids
    /\ pc' = "guard"
    /\ UNCHANGED <<error_vars, backend_vars, lib_vars, env_vars, request_vars, call_vars, probe_vars, selected_engine, hits, contexts, prompt,
                   raw_text, sources, suggested, response, status, returned_at, gate,
                   retrieve_calls, llm_calls>>

\* step 7 without the guard
TemplateGuard_off ==
    /\ pc = "guard"
    /\ pc' = "filter"
    /\ UNCHANGED <<error_vars, backend_vars, lib_vars, env_vars, request_vars, call_vars, probe_vars, selected_engine, hits, contexts, prompt,
                   raw_text, answer, used_source_ids, sources, suggested, response,
                   status, returned_at, gate, retrieve_calls, llm_calls>>

\* step 7: the template guard
TemplateGuard ==
    /\ pc = "guard"
    /\ IF looks_like_template_garbage(answer)
       THEN /\ response' = <<build_no_rag_stop_response(selected_engine, product_id)>>
            /\ returned_at' = "garbage"
            /\ pc' = "done"
       ELSE /\ pc' = "filter"
            /\ UNCHANGED <<response, returned_at>>
    /\ UNCHANGED <<error_vars, backend_vars, lib_vars, env_vars, request_vars, call_vars, probe_vars, selected_engine, hits, contexts, prompt,
                   raw_text, answer, used_source_ids, sources, suggested, status, gate,
                   retrieve_calls, llm_calls>>

\* step 8: _filter_sources_by_used_ids
FilterSources ==
    /\ pc = "filter"
    /\ sources' = filter_sources_by_used_ids(contexts, used_source_ids)
    /\ pc' = "suggest"
    /\ UNCHANGED <<error_vars, backend_vars, lib_vars, env_vars, request_vars, call_vars, probe_vars, selected_engine, hits, contexts, prompt,
                   raw_text, answer, used_source_ids, suggested, response, status,
                   returned_at, gate, retrieve_calls, llm_calls>>

\* step 9 and the final return: _suggest_questions, build_chat_response
SuggestAndRespond ==
    /\ pc = "suggest"
    /\ suggested' = suggest_related_questions(query, product_id,
                                              conversation_history, SUGGEST_TOP_K)
    /\ response' = <<build_chat_response(answer, sources, selected_engine,
                                         product_id, suggested')>>
    /\ returned_at' = "respond"
    /\ pc' = "done"
    /\ lookup_calls' = lookup_calls + 1
    /\ UNCHANGED <<error_vars, backend_vars, lib_vars, env_vars, request_vars, call_vars, probe_calls, selected_engine, hits, contexts, prompt,
                   raw_text, answer, used_source_ids, sources, status, gate,
                   retrieve_calls, llm_calls>>

\* step 9 when get_product_by_id raises inside _get_default_questions: except
\* Exception turns it into a 500
SuggestRaises ==
    /\ pc = "suggest"
    /\ lookup_calls' = lookup_calls + 1
    /\ status' = 500
    /\ detail' = DetailOf(500)
    /\ \E e \in LookupErrors : raised' = <<e>>
    /\ pc' = "error"
    /\ UNCHANGED <<backend_vars, lib_vars, env_vars, request_vars, call_vars, probe_calls, selected_engine,
                   hits, contexts, prompt, raw_text, answer, used_source_ids,
                   sources, suggested, response, returned_at, gate, retrieve_calls,
                   llm_calls>>

Next ==
    \/ EnsureEngineAvailable
    \/ RetrieveContexts
    \/ RetrieveRaises
    \/ Gate
    \/ TryDirectQnaAnswer
    \/ BuildPrompt
    \/ RunLlm
    \/ RunLlmRaises
    \/ ParseLlmOutput
    \/ TemplateGuard
    \/ FilterSources
    \/ SuggestAndRespond
    \/ SuggestRaises

Spec == Init /\ [][Next]_vars

(***************************************************************************)
(* A turn during which the availability of the backend changes             *)
(***************************************************************************)
\* turns that pass step 0, with and without a local model loaded
DriftInit ==
    /\ InitRequest
    /\ engine = "gemini"
    /\ gemini_available
    /\ ~DIRECT_QNA_ENABLED
    /\ product_id = 1
    /\ conversation_history = <<>>
    /\ local_available \in BOOLEAN

\* is_gemini_available() answers False at engine.py:53 after it answered True
\* at chat_service.py:45
AvailabilityChanges ==
    /\ pc \in {"retrieve", "gate", "direct", "prompt", "llm"}
    /\ gemini_available
    /\ gemini_available' = FALSE
    /\ UNCHANGED <<error_vars, backend_vars, lib_vars, DIRECT_QNA_ENABLED,
                   product_qna, collection, request_vars, call_vars, probe_vars,
                   pc, selected_engine, hits, contexts, prompt, raw_text, answer,
                   used_source_ids, sources, suggested, response, status,
                   returned_at, gate, retrieve_calls, llm_calls>>

DriftNext ==
    \/ Next
    \/ AvailabilityChanges

DriftSpec == DriftInit /\ [][DriftNext]_vars

(***************************************************************************)
(* A direct call of suggest_related_questions                              *)
(***************************************************************************)
\* the largest top_k of a direct call
MaxTopK == 3

\* the product ids of a direct call: the three rows of products and no row
SuggestProductIds == {1, 2, 3, 9}

\* the asked_questions lists of a direct call
AskedLists(pid) ==
    LET d == get_default_questions(pid)
    IN  {<<>>, <<d[1]>>, <<d[5]>>, <<d[2], d[1]>>, d, <<QRY_WATERPROOF>>}

InitSuggestCall ==
    /\ LibIdle
    /\ DIRECT_QNA_ENABLED = FALSE
    /\ gemini_available = TRUE
    /\ local_available = FALSE
    /\ product_qna = <<>>
    /\ collection = index_all_products(product_qna)
    /\ query \in SuggestQueries
    /\ product_id \in SuggestProductIds
    /\ engine = "gemini"
    /\ conversation_history \in AskedLists(product_id)
    /\ top_k \in 0..MaxTopK
    /\ pc = "suggest_call"
    /\ arg = <<>>
    /\ result = <<>>
    /\ TurnLocalsInit

\* suggest_related_questions called with the inputs drawn
CallSuggest ==
    /\ pc = "suggest_call"
    /\ suggested' = suggest_related_questions(query, product_id,
                                              conversation_history, top_k)
    /\ pc' = "suggest_return"
    /\ lookup_calls' = lookup_calls + 1
    /\ UNCHANGED <<error_vars, backend_vars, lib_vars, env_vars, request_vars, call_vars, probe_calls, selected_engine,
                   hits, contexts, prompt, raw_text, answer, used_source_ids,
                   sources, response, status, returned_at, gate, retrieve_calls,
                   llm_calls>>

\* the call when get_product_by_id raises (sqlite3 error): the exception leaves
\* suggest_related_questions
CallSuggestRaises ==
    /\ pc = "suggest_call"
    /\ pc' = "suggest_raise"
    /\ lookup_calls' = lookup_calls + 1
    /\ UNCHANGED <<error_vars, backend_vars, lib_vars, env_vars, request_vars, call_vars, probe_calls, selected_engine,
                   hits, contexts, prompt, raw_text, answer, used_source_ids,
                   sources, suggested, response, status, returned_at, gate,
                   retrieve_calls, llm_calls>>

SuggestInit == Init \/ InitSuggestCall

SuggestNext ==
    \/ Next
    \/ CallSuggest
    \/ CallSuggestRaises

SuggestSpec == SuggestInit /\ [][SuggestNext]_vars

(***************************************************************************)
(* Direct calls of keyword_overlap, _parse_llm_output and                  *)
(* _filter_sources_by_used_ids                                             *)
(***************************************************************************)
\* a process with no request in progress
NoRequest ==
    /\ DIRECT_QNA_ENABLED = FALSE
    /\ gemini_available = TRUE
    /\ local_available = FALSE
    /\ product_qna = <<>>
    /\ collection = index_all_products(product_qna)
    /\ product_id = 1
    /\ engine = "gemini"
    /\ conversation_history = <<>>
    /\ top_k = SUGGEST_TOP_K
    /\ TurnLocalsInit

\* a query in a script outside the token pattern, two characters
QRY_KANJI == <<"U+9632", "U+6C34", "?">>

\* a query whose runs of token characters are all one character long
QRY_SHORT == <<"a", " ", "b", " ", "7", "?">>

QRY_UPPER == <<"I", "P", "X", "7", "?">>

TXT_COMPOUND ==
    <<"bang", "su", "gi", "neung", "'i", " ", "'iss", "na", "'yo", "?">>

TXT_KANJI == <<"U+9632", "U+6C34", " ", "U+6027", "U+80FD">>

TXT_IPX == <<"i", "p", "x", "7", " ", "deung", "geub">>

TXT_LETTERS == <<"a", " ", "b", " ", "7">>

OverlapQueries ==
    {QRY_WATERPROOF, QRY_STOP_ONLY, QRY_DELIVERY, QRY_KANJI, QRY_SHORT, QRY_UPPER, <<>>}

OverlapTexts ==
    {QNA_Q_WATERPROOF, QNA_Q_WEIGHT, QNA_Q_WITH_A_MARK, TXT_COMPOUND, TXT_KANJI,
     TXT_IPX, TXT_LETTERS, <<>>}

InitCallOverlap ==
    /\ NoRequest
    /\ query \in OverlapQueries
    /\ arg \in OverlapTexts
    /\ result = <<>>
    /\ pc = "overlap_call"

\* keyword_overlap(query, text) called with the inputs drawn
CallKeywordOverlap ==
    /\ pc = "overlap_call"
    /\ result' = <<keyword_overlap(query, arg)>>
    /\ pc' = "overlap_return"
    /\ UNCHANGED <<error_vars, backend_vars, lib_vars, env_vars, request_vars, probe_vars, arg, selected_engine, hits,
                   contexts, prompt, raw_text, answer, used_source_ids, sources,
                   suggested, response, status, returned_at, gate, retrieve_calls,
                   llm_calls>>

\* json.dumps of a str: quote, backslash and newline are escaped
RECURSIVE JsonEscape(_)
JsonEscape(x) ==
    IF x = <<>> THEN <<>>
    ELSE (IF Head(x) \in {DQ, BACKSLASH} THEN <<BACKSLASH, Head(x)>>
          ELSE IF Head(x) = "\n" THEN <<BACKSLASH, "n">>
          ELSE <<Head(x)>>) \o JsonEscape(Tail(x))

JsonDumpsString(x) == <<DQ>> \o JsonEscape(x) \o <<DQ>>

RECURSIVE JsonDumpsStrings(_)
JsonDumpsStrings(xs) ==
    IF xs = <<>> THEN <<>>
    ELSE JsonDumpsString(Head(xs)) \o (IF Len(xs) > 1 THEN <<",">> ELSE <<>>)
         \o JsonDumpsStrings(Tail(xs))

\* the well-formed object of the output contract for an answer and a list of ids
JsonDumpsContract(x, ids) ==
    <<"{">> \o JsonDumpsString(KEY_ANSWER) \o <<":">> \o JsonDumpsString(x) \o <<",">>
    \o JsonDumpsString(KEY_USED) \o <<":", "[">> \o JsonDumpsStrings(ids) \o <<"]", "}">>

X_QUOTED == <<"ne", " ", DQ, "I", "P", "X", "7", DQ>>
X_BACKSLASH == <<"8", BACKSLASH, "si", "gan">>
X_TWO_LINES == <<"ne", "\n", "8", "si", "gan">>
X_BRACES == <<"{", "8", "}", " ", "si", "gan">>
X_PADDED == <<" ">> \o LLM_ANSWER \o <<" ">>
X_TRAILING_NEWLINE == LLM_ANSWER \o <<"\n">>
X_BLANK == <<" ">>

\* the non-empty answer strings of a round trip
RoundTripAnswers ==
    {LLM_ANSWER, X_QUOTED, X_BACKSLASH, X_TWO_LINES, X_BRACES, X_PADDED,
     X_TRAILING_NEWLINE, X_BLANK}

ID_A == <<"a">>
ID_B == <<"b">>
ID_QUOTED == <<"p", DQ, "1">>

\* the lists of id strings of a round trip
RoundTripIds ==
    {<<>>, <<ID_A>>, <<ID_A, ID_B>>, <<ID_B, ID_A>>, <<ID_A, ID_A>>,
     <<ID_EARPHONE_DESC, ID_QUOTED>>, << <<>> >>, <<ID_A, <<" ">>, ID_B>>}

InitCallParse ==
    /\ NoRequest
    /\ query = <<>>
    /\ \E x \in RoundTripAnswers, ids \in RoundTripIds :
          arg = [answer |-> x, used_source_ids |-> ids]
    /\ result = <<>>
    /\ pc = "parse_call"

\* _parse_llm_output called on the text of the well-formed object
CallParseLlmOutput ==
    /\ pc = "parse_call"
    /\ result' = <<parse_llm_output(JsonDumpsContract(arg.answer, arg.used_source_ids))>>
    /\ pc' = "parse_return"
    /\ UNCHANGED <<error_vars, backend_vars, lib_vars, env_vars, request_vars, probe_vars, arg, selected_engine, hits,
                   contexts, prompt, raw_text, answer, used_source_ids, sources,
                   suggested, response, status, returned_at, gate, retrieve_calls,
                   llm_calls>>

\* evidence passages of a direct call: with an id, with the id of another
\* passage, without the key (as search_documents builds them), with an empty id
CTX_A ==
    [source_id |-> ID_A, content |-> LLM_ANSWER, type |-> "qna", score |-> 180,
     product_id |-> 1]
CTX_B ==
    [source_id |-> ID_B, content |-> DESC_EARPHONE, type |-> "description",
     score |-> 100, product_id |-> 1]
CTX_A_AGAIN ==
    [source_id |-> ID_A, content |-> QNA_A_WEIGHT, type |-> "review", score |-> 50,
     product_id |-> 1]
CTX_NO_KEY ==
    [content |-> DESC_BLANKET, type |-> "description", score |-> 100, product_id |-> 2]
CTX_EMPTY_ID ==
    [source_id |-> <<>>, content |-> QNA_A_YES, type |-> "qna", score |-> 49,
     product_id |-> 1]

FilterContexts ==
    {<<>>, <<CTX_A, CTX_B>>, <<CTX_B, CTX_A>>, <<CTX_A, CTX_NO_KEY, CTX_B>>,
     <<CTX_NO_KEY>>, <<CTX_A, CTX_A_AGAIN, CTX_EMPTY_ID>>,
     <<CTX_EMPTY_ID, CTX_NO_KEY, CTX_A>>}

FilterUsedIds ==
    {<<>>, <<ID_A>>, <<ID_A, ID_B>>, <<ID_B, ID_A>>, <<ID_INVENTED>>, << <<>> >>,
     <<ID_B, ID_B>>}

InitCallFilter ==
    /\ NoRequest
    /\ query = <<>>
    /\ \E ctxs \in FilterContexts, used \in FilterUsedIds :
          arg = [contexts |-> ctxs, used_source_ids |-> used]
    /\ result = <<>>
    /\ pc = "filter_call"

\* _filter_sources_by_used_ids called on the evidence
CallFilterSources ==
    /\ pc = "filter_call"
    /\ result' = <<filter_sources_by_used_ids(arg.contexts, arg.used_source_ids)>>
    /\ pc' = "filter_return"
    /\ UNCHANGED <<error_vars, backend_vars, lib_vars, env_vars, request_vars, probe_vars, arg, selected_engine, hits,
                   contexts, prompt, raw_text, answer, used_source_ids, sources,
                   suggested, response, status, returned_at, gate, retrieve_calls,
                   llm_calls>>

\* _filter_sources_by_used_ids called on its own output, same cited ids
CallFilterSourcesAgain ==
    /\ pc = "filter_return"
    /\ result' = Append(result,
                        filter_sources_by_used_ids(result[1], arg.used_source_ids))
    /\ pc' = "filter_again_return"
    /\ UNCHANGED <<error_vars, backend_vars, lib_vars, env_vars, request_vars, probe_vars, arg, selected_engine, hits,
                   contexts, prompt, raw_text, answer, used_source_ids, sources,
                   suggested, response, status, returned_at, gate, retrieve_calls,
                   llm_calls>>

FuncInit ==
    /\ LibIdle
    /\ \/ InitCallOverlap
       \/ InitCallParse
       \/ InitCallFilter

FuncNext ==
    \/ CallKeywordOverlap
    \/ CallParseLlmOutput
    \/ CallFilterSources
    \/ CallFilterSourcesAgain

FuncSpec == FuncInit /\ [][FuncNext]_vars

(***************************************************************************)
(* llm/gemini_engine.py: one call of generate_gemini                       *)
(***************************************************************************)
\* _looks_truncated
looks_truncated(text) ==
    IF Strip(text) = <<>> THEN TRUE
    ELSE LET s == Strip(text)
         IN  \/ Count(s, <<"(">>) > Count(s, <<")">>)
             \/ Count(s, <<"[">>) > Count(s, <<"]">>)
             \/ Count(s, <<"{">>) > Count(s, <<"}">>)
             \/ Count(s, <<DQ>>) % 2 = 1
             \/ Count(s, <<"'">>) % 2 = 1

\* texts of the SDK and of the REST response
GEN_COMPLETE == <<"8", "si", "gan">>
GEN_CUT_SHORT == <<"(", "8">>
GEN_CUT_LONG == <<"{", DQ, "8", "si", "gan">>
SdkTexts == {GEN_COMPLETE, GEN_CUT_SHORT, GEN_CUT_LONG, <<>>, <<" ">>}
RestTexts == {GEN_COMPLETE, GEN_CUT_SHORT}

\* outcomes of one urlopen: the status of the response, or NO_RESPONSE for
\* an error that is not an HTTPError (URLError, timeout)
HttpStatuses == {200, 400, 403, 404, 429, 500, 503}
NO_RESPONSE == 0
HttpOutcomes == HttpStatuses \cup {NO_RESPONSE}

\* what resp.read() holds after a 200
RestBodies ==
    {<<"not JSON">>, <<"no candidates">>, <<"no parts">>, <<"no text">>}
    \cup {<<"text", t>> : t \in RestTexts}

\* messages of the RuntimeError raised
MSG_CONFIG == "Gemini REST hochure piryohan seoljeongi eopseumnida."
MSG_FAILED == "Gemini API hochuri silpaehaetseumnida."
MSG_429 == "Gemini API hochuri 429(Quota/Rate limit)euro silpaehaetseumnida."
MSG_403 == "Gemini API hochuri 403(Permission)euro silpaehaetseumnida."
MSG_404 == "Gemini API hochuri 404(Not found)ro silpaehaetseumnida."
MSG_400 == "Gemini API hochuri 400(Bad request)ro silpaehaetseumnida."
MSG_ERROR == "Gemini API hochul jung oryuga balsaenghaetseumnida."
MSG_PARSE == "Gemini API eungdabeul cheorihaji mothaetseumnida."
MSG_NO_ANSWER == "Geminiga dapbyeoneul saengseonghaji mothaetseumnida."
MSG_EMPTY == "Gemini eungdap tekseuteuga bieo itseumnida."

\* the message chosen at lines 153-175
HttpErrorMessage(code) ==
    CASE code = 429 -> MSG_429
      [] code = 403 -> MSG_403
      [] code = 404 -> MSG_404
      [] code = 400 -> MSG_400
      [] OTHER -> MSG_FAILED

\* 1.0 * (2 ** attempt)
Pow2(n) == IF n = 0 THEN 1 ELSE IF n = 1 THEN 2 ELSE 4
BackoffSeconds(n) == 1 * Pow2(n)

\* the call of _rest_generate_content made at the given line
CallRest(line) ==
    /\ rest_calls' = rest_calls + 1
    /\ rest_site' = line
    /\ attempt' = 0
    /\ http_codes' = <<>>
    /\ waits' = <<>>
    /\ rest_result' = <<>>
    /\ pc' = "rest_enter"

\* generate_gemini and the direct call of _rest_generate_content start with
\* the module state init_gemini can leave: the SDK needs the key
GeminiInit ==
    /\ NoRequest
    /\ ChunkIdle
    /\ ConcIdle
    /\ ApiIdle
    /\ query = <<>>
    /\ arg = <<>>
    /\ result = <<>>
    /\ use_sdk \in BOOLEAN
    /\ rest_configured \in BOOLEAN
    /\ use_sdk => rest_configured
    /\ text_1 = <<>>
    /\ rest_calls = 0
    /\ rest_site = 0
    /\ attempt = 0
    /\ http_codes = <<>>
    /\ waits = <<>>
    /\ rest_result = <<>>
    /\ gen_result = <<>>
    /\ pc = "gemini_call"

\* lines 262-265: without the SDK the REST call is the whole function
GenerateGemini ==
    /\ pc = "gemini_call"
    /\ IF ~use_sdk
       THEN CallRest(263)
       ELSE /\ pc' = "sdk"
            /\ UNCHANGED <<rest_calls, rest_site, attempt, http_codes, waits,
                           rest_result>>
    /\ UNCHANGED <<use_sdk, rest_configured, text_1, gen_result>>
    /\ UNCHANGED <<api_vars, conc_vars, chunk_vars, error_vars, backend_vars, env_vars, request_vars, call_vars,
                   probe_vars, selected_engine, hits, contexts, prompt, raw_text,
                   answer, used_source_ids, sources, suggested, response, status,
                   returned_at, gate, retrieve_calls, llm_calls>>

\* lines 280-296: the SDK returns a text
SdkGenerateOnce ==
    /\ pc = "sdk"
    /\ \E t \in SdkTexts :
          /\ text_1' = <<t>>
          /\ IF ~looks_truncated(t)
             THEN /\ gen_result' = <<"return", t>>
                  /\ pc' = "gemini_done"
                  /\ UNCHANGED <<rest_calls, rest_site, attempt, http_codes,
                                 waits, rest_result>>
             ELSE IF rest_configured
             THEN /\ CallRest(290)
                  /\ UNCHANGED gen_result
             ELSE /\ gen_result' = <<"return", t>>
                  /\ pc' = "gemini_done"
                  /\ UNCHANGED <<rest_calls, rest_site, attempt, http_codes,
                                 waits, rest_result>>
    /\ UNCHANGED <<use_sdk, rest_configured>>
    /\ UNCHANGED <<api_vars, conc_vars, chunk_vars, error_vars, backend_vars, env_vars, request_vars, call_vars,
                   probe_vars, selected_engine, hits, contexts, prompt, raw_text,
                   answer, used_source_ids, sources, suggested, response, status,
                   returned_at, gate, retrieve_calls, llm_calls>>

\* lines 298-304: the SDK raises
SdkGenerateRaises ==
    /\ pc = "sdk"
    /\ IF rest_configured
       THEN /\ CallRest(303)
            /\ UNCHANGED gen_result
       ELSE /\ gen_result' = <<"raise", MSG_ERROR>>
            /\ pc' = "gemini_done"
            /\ UNCHANGED <<rest_calls, rest_site, attempt, http_codes, waits,
                           rest_result>>
    /\ UNCHANGED <<use_sdk, rest_configured, text_1>>
    /\ UNCHANGED <<api_vars, conc_vars, chunk_vars, error_vars, backend_vars, env_vars, request_vars, call_vars,
                   probe_vars, selected_engine, hits, contexts, prompt, raw_text,
                   answer, used_source_ids, sources, suggested, response, status,
                   returned_at, gate, retrieve_calls, llm_calls>>

\* lines 102-128: the test of the settings
RestGenerateContent ==
    /\ pc = "rest_enter"
    /\ IF ~rest_configured
       THEN /\ rest_result' = <<"raise", MSG_CONFIG>>
            /\ pc' = "rest_end"
       ELSE /\ pc' = "rest_loop"
            /\ UNCHANGED rest_result
    /\ UNCHANGED <<use_sdk, rest_configured, text_1, rest_calls, rest_site,
                   attempt, http_codes, waits, gen_result>>
    /\ UNCHANGED <<api_vars, conc_vars, chunk_vars, error_vars, backend_vars, env_vars, request_vars, call_vars,
                   probe_vars, selected_engine, hits, contexts, prompt, raw_text,
                   answer, used_source_ids, sources, suggested, response, status,
                   returned_at, gate, retrieve_calls, llm_calls>>

\* lines 132-184 with a retry after any HTTP error
RestAttempt_retry_any ==
    /\ pc = "rest_loop"
    /\ attempt < 3
    /\ \E o \in HttpOutcomes :
          /\ http_codes' = Append(http_codes, o)
          /\ IF o = 200
             THEN /\ pc' = "rest_body"
                  /\ UNCHANGED <<attempt, waits, rest_result>>
             ELSE IF o \in HttpStatuses
             THEN IF attempt < 2
                  THEN /\ waits' = Append(waits, BackoffSeconds(attempt))
                       /\ attempt' = attempt + 1
                       /\ UNCHANGED <<pc, rest_result>>
                  ELSE /\ rest_result' = <<"raise", HttpErrorMessage(o)>>
                       /\ pc' = "rest_end"
                       /\ UNCHANGED <<attempt, waits>>
             ELSE /\ rest_result' = <<"raise", MSG_ERROR>>
                  /\ pc' = "rest_end"
                  /\ UNCHANGED <<attempt, waits>>
    /\ UNCHANGED <<use_sdk, rest_configured, text_1, rest_calls, rest_site,
                   gen_result>>
    /\ UNCHANGED <<api_vars, conc_vars, chunk_vars, error_vars, backend_vars, env_vars, request_vars, call_vars,
                   probe_vars, selected_engine, hits, contexts, prompt, raw_text,
                   answer, used_source_ids, sources, suggested, response, status,
                   returned_at, gate, retrieve_calls, llm_calls>>

\* lines 132-184: one pass of the loop body, for attempt in range(3)
RestAttempt ==
    /\ pc = "rest_loop"
    /\ attempt < 3
    /\ \E o \in HttpOutcomes :
          /\ http_codes' = Append(http_codes, o)
          /\ IF o = 200
             THEN /\ pc' = "rest_body"
                  /\ UNCHANGED <<attempt, waits, rest_result>>
             ELSE IF o \in HttpStatuses
             THEN IF o \in {429, 503} /\ attempt < 2
                  THEN /\ waits' = Append(waits, BackoffSeconds(attempt))
                       /\ attempt' = attempt + 1
                       /\ UNCHANGED <<pc, rest_result>>
                  ELSE /\ rest_result' = <<"raise", HttpErrorMessage(o)>>
                       /\ pc' = "rest_end"
                       /\ UNCHANGED <<attempt, waits>>
             ELSE /\ rest_result' = <<"raise", MSG_ERROR>>
                  /\ pc' = "rest_end"
                  /\ UNCHANGED <<attempt, waits>>
    /\ UNCHANGED <<use_sdk, rest_configured, text_1, rest_calls, rest_site,
                   gen_result>>
    /\ UNCHANGED <<api_vars, conc_vars, chunk_vars, error_vars, backend_vars, env_vars, request_vars, call_vars,
                   probe_vars, selected_engine, hits, contexts, prompt, raw_text,
                   answer, used_source_ids, sources, suggested, response, status,
                   returned_at, gate, retrieve_calls, llm_calls>>

\* lines 186-208: the body of the 200 response
RestReadBody ==
    /\ pc = "rest_body"
    /\ \E body \in RestBodies :
          rest_result' =
              CASE body[1] = "not JSON" -> <<"raise", MSG_PARSE>>
                [] body[1] = "no candidates" -> <<"raise", MSG_NO_ANSWER>>
                [] body[1] = "no parts" -> <<"raise", MSG_NO_ANSWER>>
                [] body[1] = "no text" -> <<"raise", MSG_EMPTY>>
                [] OTHER -> <<"return", body[2]>>
    /\ pc' = "rest_end"
    /\ UNCHANGED <<use_sdk, rest_configured, text_1, rest_calls, rest_site,
                   attempt, http_codes, waits, gen_result>>
    /\ UNCHANGED <<api_vars, conc_vars, chunk_vars, error_vars, backend_vars, env_vars, request_vars, call_vars,
                   probe_vars, selected_engine, hits, contexts, prompt, raw_text,
                   answer, used_source_ids, sources, suggested, response, status,
                   returned_at, gate, retrieve_calls, llm_calls>>

\* the call of _rest_generate_content ends: at lines 263 and 303 its result
\* is that of generate_gemini; at line 290 a text is weighed against text_1
\* (lines 292-294) and an exception is caught at line 298, where the REST
\* call is made again (line 303)
RestEnds ==
    /\ pc = "rest_end"
    /\ IF rest_site = 290
       THEN IF rest_result[1] = "return"
            THEN /\ gen_result' =
                       LET text_2 == rest_result[2]
                       IN  IF ~looks_truncated(text_2) THEN <<"return", text_2>>
                           ELSE IF Len(text_2) >= Len(text_1[1])
                           THEN <<"return", text_2>>
                           ELSE <<"return", text_1[1]>>
                 /\ pc' = "gemini_done"
                 /\ UNCHANGED <<rest_calls, rest_site, attempt, http_codes,
                                waits, rest_result>>
            ELSE IF rest_configured
            THEN /\ CallRest(303)
                 /\ UNCHANGED gen_result
            ELSE /\ gen_result' = <<"raise", MSG_ERROR>>
                 /\ pc' = "gemini_done"
                 /\ UNCHANGED <<rest_calls, rest_site, attempt, http_codes,
                                waits, rest_result>>
       ELSE /\ gen_result' = rest_result
            /\ pc' = "gemini_done"
            /\ UNCHANGED <<rest_calls, rest_site, attempt, http_codes, waits,
                           rest_result>>
    /\ UNCHANGED <<use_sdk, rest_configured, text_1>>
    /\ UNCHANGED <<api_vars, conc_vars, chunk_vars, error_vars, backend_vars, env_vars, request_vars, call_vars,
                   probe_vars, selected_engine, hits, contexts, prompt, raw_text,
                   answer, used_source_ids, sources, suggested, response, status,
                   returned_at, gate, retrieve_calls, llm_calls>>

GeminiNext ==
    \/ GenerateGemini
    \/ SdkGenerateOnce
    \/ SdkGenerateRaises
    \/ RestGenerateContent
    \/ RestAttempt
    \/ RestReadBody
    \/ RestEnds

\* urlopen has a timeout and time.sleep returns: a step that can be taken is
\* taken
GeminiSpec == GeminiInit /\ [][GeminiNext]_vars /\ WF_vars(GeminiNext)

(***************************************************************************)
(* Two turns of one process. handle_chat runs on the event loop and gives  *)
(* up control only at the await of the generation call (line 250); the     *)
(* second turn is allowed to step between any two steps of the first       *)
(***************************************************************************)
\* what the vector store may hold before the first index_all_products of the
\* process: nothing, or the index of an earlier run
StaleCollections == {<<>>, index_all_products(<<>>)}

ConcProductIds == {1, 2}

\* the Q&A rows of the database during the two turns
CONC_QNA ==
    <<[id |-> 1, product_id |-> 1,
       question |-> QNA_Q_WATERPROOF, answer |-> QNA_A_WATERPROOF]>>

\* the index of these rows
FullIndex == index_all_products(CONC_QNA)

ConcInit ==
    /\ DIRECT_QNA_ENABLED = FALSE
    /\ gemini_available = TRUE
    /\ local_available = FALSE
    /\ product_qna = CONC_QNA
    /\ indexed \in BOOLEAN
    /\ collection \in IF indexed THEN {FullIndex} ELSE StaleCollections
    /\ index_writer = 0
    /\ index_readers = {}
    /\ query = QRY_WATERPROOF
    /\ product_id = 1
    /\ engine = "gemini"
    /\ conversation_history = <<>>
    /\ top_k = SUGGEST_TOP_K
    /\ pc = "ensure"
    /\ arg = <<>>
    /\ result = <<>>
    /\ TurnLocalsInit
    /\ GeminiIdle
    /\ ChunkIdle
    /\ ApiIdle
    /\ other_pc = "retrieve"
    /\ other_product_id \in ConcProductIds
    /\ other_hits = <<>>

\* the second turn's retrieve_context (retriever.py lines 91-101); it then
\* waits for its generation call
OtherRetrieve ==
    /\ other_pc = "retrieve"
    /\ \E coll \in {lazy_index(indexed, collection, product_qna)} :
           /\ \E ranking \in QueryRankings(coll, other_product_id, RETRIEVE_TOP_K) :
              other_hits' = [i \in 1..Len(ranking) |-> coll[ranking[i]].id]
           /\ collection' = coll
    /\ indexed' = TRUE
    /\ index_writer' = IF indexed THEN index_writer ELSE 2
    /\ index_readers' = index_readers \cup {2}
    /\ other_pc' = "awaiting"
    /\ UNCHANGED <<DIRECT_QNA_ENABLED, gemini_available, product_qna, other_product_id>>
    /\ UNCHANGED <<api_vars, error_vars, backend_vars, gemini_vars, chunk_vars, request_vars,
                   call_vars, probe_vars, selected_engine, hits, contexts, prompt,
                   raw_text, answer, used_source_ids, sources, suggested, response,
                   status, returned_at, gate, retrieve_calls, llm_calls, pc>>

\* the second turn's generation call returns and the turn ends (lines 250-279
\* write locals only)
OtherReturns ==
    /\ other_pc = "awaiting"
    /\ other_pc' = "done"
    /\ UNCHANGED <<indexed, index_writer, index_readers, other_product_id, other_hits>>
    /\ UNCHANGED <<api_vars, error_vars, backend_vars, gemini_vars, chunk_vars, env_vars,
                   request_vars, call_vars, probe_vars, selected_engine, hits, contexts,
                   prompt, raw_text, answer, used_source_ids, sources, suggested,
                   response, status, returned_at, gate, retrieve_calls, llm_calls, pc>>

ConcNext ==
    \/ Next
    \/ OtherRetrieve
    \/ OtherReturns

ConcSpec == ConcInit /\ [][ConcNext]_vars

(***************************************************************************)
(* api/chat.py: the endpoint mounted at POST /api/chat, called with the    *)
(* request of the turn and given the same retrieval and generation results *)
(***************************************************************************)
\* ContextSource(content, type, score) of lines 401-408 and 443-450
api_context_source(ctx) ==
    [content |-> ctx.content, type |-> ctx.type, score |-> ctx.score]

\* lines 391-412: the answer of the direct return, <<>> when it is not taken
api_direct_answer(qry, ctxs) ==
    IF ~DIRECT_QNA_ENABLED THEN <<>>
    ELSE LET best_ctx == BestCtx(ctxs)
             qna_question == extract_qna_question(best_ctx.content)
         IN  IF ~(best_ctx.type = "qna" /\ best_ctx.score >= DIRECT_QNA_MIN_SCORE)
             THEN <<>>
             ELSE IF ~(keyword_overlap(qry, qna_question)
                       /\ best_ctx.score >= DIRECT_QNA_STRONG_SCORE)
             THEN <<>>
             ELSE extract_qna_answer(best_ctx.content)

\* lines 358-470: the ChatResponse of chat() from the retrieval on; raw is
\* what generate_answer returns
api_chat(qry, pid, history, sel_engine, ctxs, raw) ==
    LET fallback == build_chat_response(no_rag_fallback_answer, <<>>, sel_engine,
                                        pid, <<>>)
        all_sources == [i \in 1..Len(ctxs) |-> api_context_source(ctxs[i])]
    IN  IF ctxs = <<>> THEN fallback
        ELSE IF BestScore(ctxs) < MIN_CONTEXT_SCORE THEN fallback
        ELSE IF api_direct_answer(qry, ctxs) # <<>>
        THEN build_chat_response(api_direct_answer(qry, ctxs), all_sources,
                                 sel_engine, pid, <<>>)
        ELSE IF looks_like_template_garbage(raw) THEN fallback
        ELSE build_chat_response(raw, all_sources, sel_engine, pid,
                                 suggest_related_questions(qry, pid, history, 2))

\* the endpoint answers the request handle_chat has answered
ApiChat ==
    /\ pc = "done"
    /\ api_response = <<>>
    /\ api_response' = <<api_chat(query, product_id, conversation_history,
                                  selected_engine, contexts, raw_text)>>
    /\ UNCHANGED <<conc_vars, gemini_vars, chunk_vars, error_vars, backend_vars,
                   env_vars, request_vars, call_vars, probe_vars, selected_engine,
                   hits, contexts, prompt, raw_text, answer, used_source_ids, sources,
                   suggested, response, status, returned_at, gate, retrieve_calls,
                   llm_calls, pc>>

ApiNext ==
    \/ ApiChat
    \/ Next

\* first questions about the product with a Q&A row that pass the backend
\* check
ApiInit ==
    /\ Init
    /\ engine = "gemini"
    /\ gemini_available
    /\ product_id = 1
    /\ query = QRY_WATERPROOF
    /\ conversation_history = <<>>

ApiSpec == ApiInit /\ [][ApiNext]_vars

(***************************************************************************)
(* rag/chunker.py: chunk_text called on its own                            *)
(***************************************************************************)
\* the largest element of a non-empty set of integers
MaxOf(S) == CHOOSE m \in S : \A k \in S : k <= m

\* str.rfind(c, lo, hi) for 0 <= lo: 0-based index, -1 when absent
PyRFind(s, c, lo, hi) ==
    LET found == {i \in lo..(Min2(hi, Len(s)) - 1) : s[i + 1] = c}
    IN  IF found = {} THEN -1 ELSE MaxOf(found)

\* s[lo:hi] for 0 <= lo
PyRange(s, lo, hi) == SubSeq(s, lo + 1, Min2(hi, Len(s)))

\* position i of s survives re.sub(r'\s+', ' ', s).strip(): a character that
\* is no whitespace, or the first of a whitespace run inside the text
SurvivesNormalize(s, i) ==
    \/ ~IsSpace(s[i])
    \/ /\ i > 1
       /\ ~IsSpace(s[i - 1])
       /\ \E j \in (i + 1)..Len(s) : ~IsSpace(s[j])

\* line 27 over the positions lo..hi, by halves so that a long text is
\* normalised at a small depth
RECURSIVE NormalizeRange(_, _, _)
NormalizeRange(s, lo, hi) ==
    IF lo > hi THEN <<>>
    ELSE IF lo = hi
         THEN IF ~SurvivesNormalize(s, lo) THEN <<>>
              ELSE IF IsSpace(s[lo]) THEN <<" ">> ELSE <<s[lo]>>
         ELSE LET mid == (lo + hi) \div 2
              IN  NormalizeRange(s, lo, mid) \o NormalizeRange(s, mid + 1, hi)

\* line 27: re.sub(r'\s+', ' ', text).strip()
normalize_text(s) == NormalizeRange(s, 1, Len(s))

\* lines 42-47
last_period_of(s, lo, hi) ==
    MaxOf({PyRFind(s, ".", lo, hi), PyRFind(s, "!", lo, hi),
           PyRFind(s, "?", lo, hi), PyRFind(s, "\n", lo, hi)})

\* lines 36-50: the end of the slice that starts at lo
slice_end(s, lo, size) ==
    LET end == lo + size
    IN  IF end < Len(s) /\ last_period_of(s, lo, end) > lo
        THEN last_period_of(s, lo, end) + 1
        ELSE end

\* texts of at most this length are enumerated in full
MaxChunkText == 7

\* iterations of the loop followed in one call; a call over a text of
\* MaxChunkText characters that takes more has repeated a start
MaxChunkIterations == 8

ChunkAlphabet == {"a", ".", " "}

ShortTexts == UNION {[1..n -> ChunkAlphabet] : n \in 0..MaxChunkText}

\* n characters, sentence ends at the 0-based positions in dots
LongText(n, dots) == [i \in 1..n |-> IF (i - 1) \in dots THEN "." ELSE "a"]

\* descriptions longer than the default chunk size
LongTexts ==
    { LongText(1200, {}),
      LongText(1200, {99, 199, 299, 399, 499, 599, 699, 799, 899, 999, 1099}),
      LongText(1000, {460}),
      LongText(602, {1}),
      LongText(700, {520, 699}) }

\* sizes and overlaps with chunk_overlap < chunk_size
SmallSizes == {<<4, 1>>, <<4, 2>>, <<3, 0>>}

ChunkInit ==
    /\ NoRequest
    /\ GeminiIdle
    /\ ConcIdle
    /\ ApiIdle
    /\ query = <<>>
    /\ arg = <<>>
    /\ result = <<>>
    /\ \/ /\ \E p \in SmallSizes : chunk_size = p[1] /\ chunk_overlap = p[2]
          /\ ctext \in ShortTexts
       \/ /\ chunk_size = 500
          /\ chunk_overlap = 50
          /\ ctext \in LongTexts
    /\ chunk_start = 0
    /\ chunks = <<>>
    /\ starts = <<>>
    /\ slices = <<>>
    /\ pc = "chunk_text"

\* lines 27-33: normalise, return a short text whole
ChunkTextEnter ==
    /\ pc = "chunk_text"
    /\ ctext' = normalize_text(ctext)
    /\ chunk_start' = 0
    /\ IF Len(ctext') <= chunk_size
       THEN /\ chunks' = <<ctext'>>
            /\ slices' = <<<<0, Len(ctext')>>>>
            /\ pc' = "chunk_return"
       ELSE /\ chunks' = <<>>
            /\ slices' = <<>>
            /\ pc' = IF 0 < Len(ctext') THEN "chunk_loop" ELSE "chunk_return"
    /\ UNCHANGED <<chunk_size, chunk_overlap, starts>>
    /\ UNCHANGED <<api_vars, conc_vars, gemini_vars, error_vars, backend_vars, env_vars, request_vars,
                   call_vars, probe_vars, selected_engine, hits, contexts, prompt,
                   raw_text, answer, used_source_ids, sources, suggested, response,
                   status, returned_at, gate, retrieve_calls, llm_calls>>

\* lines 35-60: one iteration of the loop
ChunkTextLoop ==
    /\ pc = "chunk_loop"
    /\ Len(starts) < MaxChunkIterations
    /\ LET end == slice_end(ctext, chunk_start, chunk_size)
           chunk == Strip(PyRange(ctext, chunk_start, end))
           next_start == end - chunk_overlap
       IN  /\ starts' = Append(starts, chunk_start)
           /\ slices' = Append(slices, <<chunk_start, Min2(end, Len(ctext))>>)
           /\ chunks' = IF chunk # <<>> THEN Append(chunks, chunk) ELSE chunks
           /\ chunk_start' = next_start
           /\ pc' = IF next_start <= 0 \/ next_start >= Len(ctext)
                    THEN "chunk_return"
                    ELSE "chunk_loop"
    /\ UNCHANGED <<chunk_size, chunk_overlap, ctext>>
    /\ UNCHANGED <<api_vars, conc_vars, gemini_vars, error_vars, backend_vars, env_vars, request_vars,
                   call_vars, probe_vars, selected_engine, hits, contexts, prompt,
                   raw_text, answer, used_source_ids, sources, suggested, response,
                   status, returned_at, gate, retrieve_calls, llm_calls>>

ChunkNext ==
    \/ ChunkTextEnter
    \/ ChunkTextLoop

ChunkSpec == ChunkInit /\ [][ChunkNext]_vars

(***************************************************************************)
(* Properties                                                              *)
(***************************************************************************)
\* the gate has run in this turn
GateDone == pc \in {"direct", "prompt", "llm", "parse", "guard", "filter", "suggest", "done"}

\* every retrieved passage scores below the floor of 0.05
AllBelowFloor == \A i \in 1..Len(contexts) : contexts[i].score < 50

\* the turn was stopped by the gate
StoppedByGate == pc = "done" /\ returned_at = "stop"

\* C1: once the gate has run, the turn is stopped for lack of evidence exactly
\* when no passage was retrieved, stopped for low confidence exactly when
\* passages were retrieved and every one of them scores strictly below 0.05,
\* and goes on in every other case; a best score of exactly 0.05 goes on.
C1_GateClassifies ==
    GateDone =>
        /\ (gate = "STOP_NO_EVIDENCE") <=> (contexts = <<>>)
        /\ (gate = "STOP_LOW_CONFIDENCE") <=> (contexts # <<>> /\ AllBelowFloor)
        /\ (gate = "PROCEED") <=> (contexts # <<>> /\ ~AllBelowFloor)
        /\ StoppedByGate <=> (gate # "PROCEED")
        /\ (contexts # <<>> /\ contexts[1].score = 50)
              => (gate = "PROCEED" /\ returned_at # "stop")

\* C1 witness: a turn whose best passage scores exactly the floor has passed the gate
C1_Witness ==
    /\ pc = "direct"
    /\ contexts # <<>>
    /\ contexts[1].score = 50
    /\ gate = "PROCEED"

\* C2: whenever the retrieved evidence makes the gate stop (no passage, or
\* every passage below the floor), the turn has ended with a response whose
\* answer is the fixed refusal text and whose sources and suggested questions
\* are empty, and no generation call was made in the turn.
C2_StopShortCircuits ==
    (GateDone /\ (contexts = <<>> \/ AllBelowFloor)) =>
        /\ pc = "done"
        /\ returned_at = "stop"
        /\ response # <<>>
        /\ response[1].answer = no_rag_fallback_answer
        /\ response[1].sources = <<>>
        /\ response[1].suggested_questions = <<>>
        /\ llm_calls = 0
        /\ raw_text = <<>>

\* C2 witness: a turn stopped for low confidence with passages retrieved
C2_Witness ==
    /\ StoppedByGate
    /\ gate = "STOP_LOW_CONFIDENCE"
    /\ Len(contexts) = 2
    /\ response # <<>>

\* C3 as stated: no response of any path carries an answer with two or more
\* distinct red-flag fragments.
C3_NoRedFlagAnswerAnywhere ==
    response # <<>> => RedFlagHits(response[1].answer) < 2

\* C3 amended: no response of the gate stop or of the generation path carries
\* an answer with two or more distinct red-flag fragments, and a generated
\* answer with two or more of them is replaced by the refusal response with
\* empty sources and suggestions; the shortcut's stored answer is not tested.
C3_NoRedFlagAnswerGenerated ==
    /\ (response # <<>> /\ returned_at # "direct")
          => RedFlagHits(response[1].answer) < 2
    /\ (pc \in {"filter", "suggest", "done"} /\ llm_calls = 1
          /\ RedFlagHits(answer) >= 2)
          => /\ pc = "done"
             /\ returned_at = "garbage"
             /\ response = <<build_no_rag_stop_response(selected_engine, product_id)>>

\* C3 witness: a generated answer with two red flags was replaced
C3_Witness ==
    /\ returned_at = "garbage"
    /\ RedFlagHits(answer) >= 2
    /\ answer # <<>>
    /\ response # <<>>
    /\ response[1].answer = no_rag_fallback_answer

\* the passage of the query result at position i, as a source entry would show it
RetrievedAt(i) ==
    [content |-> contexts[i].content, type |-> contexts[i].type, score |-> contexts[i].score]

\* the entry of a sources list at position k, without its source_id
SourceAt(src, k) ==
    [content |-> src[k].content, type |-> src[k].type, score |-> src[k].score]

\* C4 as stated: on the generation path the sources of the response are drawn
\* from the retrieved passages only, and a retrieved passage is listed exactly
\* when the backend cited its id.
C4_SourcesAreCitedRetrieved ==
    returned_at = "respond" =>
        LET src == response[1].sources
        IN  /\ \A k \in 1..Len(src) :
                  \E i \in 1..Len(contexts) : SourceAt(src, k) = RetrievedAt(i)
            /\ \A i \in 1..Len(hits) :
                  (hits[i] \in Range(used_source_ids))
                     <=> (\E k \in 1..Len(src) : SourceAt(src, k) = RetrievedAt(i))

\* C5: the answer of a returned response is never the empty text.
C5_AnswerNeverEmpty ==
    response # <<>> => response[1].answer # <<>>

\* C5 witness: the backend returned the empty text and the turn still answered
C5_Witness ==
    /\ pc = "done"
    /\ llm_calls = 1
    /\ raw_text = <<>>
    /\ answer = <<>>
    /\ response # <<>>
    /\ response[1].answer # <<>>

\* C6: the output of suggest_related_questions contains no question of the
\* asked list and is at most top_k long, for every top_k from 0 up, and the
\* suggested questions of a response repeat no question of the history.
C6_SuggestionsFreshAndBounded ==
    /\ pc = "suggest_return" =>
          /\ \A k \in 1..Len(suggested) : suggested[k] \notin Range(conversation_history)
          /\ Len(suggested) <= top_k
    /\ response # <<>> =>
          /\ \A k \in 1..Len(response[1].suggested_questions) :
                response[1].suggested_questions[k] \notin Range(conversation_history)
          /\ Len(response[1].suggested_questions) <= SUGGEST_TOP_K

\* C6 witness: a call with an asked template question that filled its top_k
C6_Witness ==
    /\ pc = "suggest_return"
    /\ top_k > 0
    /\ Len(suggested) = top_k
    /\ Range(conversation_history) \cap Range(get_default_questions(product_id)) # {}

\* the shortcut's conditions on the highest-scoring passage (the first of the
\* result, which is ordered by score)
ShortcutConditions ==
    /\ contexts # <<>>
    /\ contexts[1].type = "qna"
    /\ contexts[1].score >= 70
    /\ contexts[1].score >= 180
    /\ keyword_overlap(query, extract_qna_question(contexts[1].content))
    /\ extract_qna_question(contexts[1].content) # <<>>
    /\ extract_qna_answer(contexts[1].content) # <<>>

\* the shortcut step has run in this turn
DirectDone == gate = "PROCEED" /\ pc # "direct"

\* C7: with the flag off the shortcut never fires, and every turn that passed
\* the gate goes on to the generation call.
C7_FlagOffNoShortcut ==
    ~DIRECT_QNA_ENABLED =>
        /\ returned_at # "direct"
        /\ DirectDone => (pc \in {"prompt", "llm"} \/ llm_calls = 1)

\* C7 witness: flag off, the shortcut's conditions hold, the backend was called
C7_Witness ==
    /\ ~DIRECT_QNA_ENABLED
    /\ gate = "PROCEED"
    /\ ShortcutConditions
    /\ llm_calls = 1

\* C8: a response of the shortcut lists exactly one source, the
\* highest-scoring passage, has no suggested questions, and no generation
\* call was made in the turn.
C8_ShortcutResponseShape ==
    returned_at = "direct" =>
        /\ response # <<>>
        /\ Len(response[1].sources) = 1
        /\ SourceAt(response[1].sources, 1) = RetrievedAt(1)
        /\ \A i \in 1..Len(contexts) : contexts[i].score <= response[1].sources[1].score
        /\ response[1].suggested_questions = <<>>
        /\ llm_calls = 0
        /\ raw_text = <<>>

\* C8 witness: the shortcut fired with two passages retrieved
C8_Witness ==
    /\ returned_at = "direct"
    /\ Len(contexts) = 2
    /\ response # <<>>

\* C9: with the flag on, once the shortcut step has run, the shortcut has
\* fired exactly when the highest-scoring passage is a Q&A passage scoring at
\* least 0.07 and at least 0.18 whose question half shares a keyword with the
\* question and from which a question and an answer can be recovered; in
\* every other case the turn is on the generation path.
C9_ShortcutFiresIff ==
    (DIRECT_QNA_ENABLED /\ DirectDone) =>
        /\ (returned_at = "direct") <=> ShortcutConditions
        /\ ~ShortcutConditions => (pc \in {"prompt", "llm"} \/ llm_calls = 1)

\* C9 witness: flag on, the top passage is a description and a lower-ranked
\* Q&A passage meets every condition, and the turn went to the backend
C9_Witness ==
    /\ DIRECT_QNA_ENABLED
    /\ llm_calls = 1
    /\ Len(contexts) = 2
    /\ contexts[1].type = "description"
    /\ contexts[2].type = "qna"
    /\ contexts[2].score >= 180
    /\ keyword_overlap(query, extract_qna_question(contexts[2].content))
    /\ extract_qna_answer(contexts[2].content) # <<>>

\* C10 as stated: the answer of a shortcut response is the stored answer of
\* the Q&A row behind the passage, verbatim (read up to the whitespace
\* normalisation of indexing), also when the stored question or answer
\* contains a Q: or A: marker.
C10_ShortcutAnswerVerbatim ==
    returned_at = "direct"
        => response[1].answer = Strip(NormalizeWs(product_qna[1].answer))

\* characters that belong to no word of any script
NonWordChars == {" ", "\n", "\t", "?", "!", ".", ",", ":", "/", "(", ")"}

\* the spans <<first, last>> of the maximal runs, at least 2 long, of
\* characters of s that lie in cls
RunSpans(s, cls) ==
    { q \in (1..Len(s)) \X (1..Len(s)) :
        /\ q[2] >= q[1] + 1
        /\ \A k \in q[1]..q[2] : s[k] \in cls
        /\ (q[1] = 1 \/ s[q[1] - 1] \notin cls)
        /\ (q[2] = Len(s) \/ s[q[2] + 1] \notin cls) }

\* the runs themselves
MaximalRuns(s, cls) == { SubSeq(s, p[1], p[2]) : p \in RunSpans(s, cls) }

\* the word tokens of a text, of any script
WordTokens(s) == MaximalRuns(Lower(s), Range(Lower(s)) \ NonWordChars)

\* the tokens of the code's pattern: digits, a-z, Hangul syllables
PatternTokens(s) == MaximalRuns(Lower(s), TokenChars)

\* C11 as stated: the lexical condition holds exactly when the query and the
\* text share at least one token, tokens being runs of at least 2 word
\* characters of any script with stop-words removed.
C11_OverlapIsSharedWordToken ==
    pc = "overlap_return" =>
        (result[1] <=> ((WordTokens(query) \ QUERY_STOP_TOKENS) \cap WordTokens(arg) # {}))

\* C11 amended: the lexical condition holds exactly when some token of the
\* query occurs as a substring of the lower-cased text, tokens being the
\* maximal runs of at least 2 characters among digits, a-z and Hangul
\* syllables of the lower-cased query, stop-words removed; a query whose
\* tokens are all stop-words or all shorter than 2 never satisfies it.
C11_OverlapIsTokenSubstring ==
    pc = "overlap_return" =>
        /\ result[1] <=> (\E tok \in PatternTokens(query) \ QUERY_STOP_TOKENS :
                             Contains(Lower(arg), tok))
        /\ (WordTokens(query) \ QUERY_STOP_TOKENS = {}) => ~result[1]

\* C11 witness: the condition holds on a token that is part of a longer word
\* of the text, and the two share no whole token
C11_Witness ==
    /\ pc = "overlap_return"
    /\ result = <<TRUE>>
    /\ WordTokens(query) \cap WordTokens(arg) = {}

\* the object of the first stage that yields one: the whole text after the
\* fence is stripped, else the text from the first "{" to the last "}"
StagedObject(raw) ==
    LET s0 == Strip(raw)
        s == IF s0 # <<>> /\ Head(s0) = FENCE THEN StripFence(s0) ELSE s0
        whole == json_loads(s)
        start == Find(s, <<"{">>)
        end == RFind(s, <<"}">>)
        inner == IF start # 0 /\ end > start
                 THEN json_loads(SubSeq(s, start, end))
                 ELSE JFail
    IN  IF whole.ok /\ whole.val.t = "obj" THEN whole.val
        ELSE IF inner.ok /\ inner.val.t = "obj" THEN inner.val
        ELSE JNull

\* the backend's text has been parsed in this turn
ParseDone == pc \in {"guard", "filter", "suggest", "done"} /\ llm_calls = 1

\* C12 as stated: the parsed answer and cited ids are those of the first
\* stage that yields an object (whole text after fence stripping, else the
\* text from the first "{" to the last "}"), and only when no stage yields
\* one is the entire raw text the answer with an empty cited-id set.
C12_FirstStageThatYieldsObject ==
    ParseDone =>
        LET obj == StagedObject(raw_text)
            a == JGet(obj, KEY_ANSWER)
            u == JGet(obj, KEY_USED)
        IN  IF obj.t = "obj"
            THEN /\ answer = IF a.t = "str" /\ Strip(a.s) # <<>>
                             THEN Strip(a.s) ELSE raw_text
                 /\ used_source_ids = IF u.t = "arr" THEN UsedIds(u.items) ELSE <<>>
            ELSE /\ answer = raw_text
                 /\ used_source_ids = <<>>

\* the answer and id list written into the object, and the pair parsed back
RoundTripDone == pc = "parse_return"

\* C13 as stated: for every non-empty answer string X and every list L of id
\* strings, parsing the well-formed object of X and L returns exactly X and
\* exactly L.
C13_RoundTripExact ==
    RoundTripDone => result[1] = arg

\* C13 amended: for every answer string X with a non-whitespace character
\* and every list L of id strings, parsing the well-formed object returns X
\* without its leading and trailing whitespace and the ids of L that are not
\* blank, in order; the round trip is exact when X has no leading or
\* trailing whitespace and no id of L is blank.
C13_RoundTripUpToStrip ==
    (RoundTripDone /\ Strip(arg.answer) # <<>>) =>
        LET kept == {k \in 1..Len(arg.used_source_ids) :
                        \E n \in 1..Len(arg.used_source_ids[k]) :
                            ~IsSpace(arg.used_source_ids[k][n])}
            ids == result[1].used_source_ids
        IN  /\ result[1].answer = Strip(arg.answer)
            /\ Len(ids) = Cardinality(kept)
            /\ \A n \in 1..Len(ids) :
                  \E k \in kept :
                     /\ ids[n] = arg.used_source_ids[k]
                     /\ Cardinality({m \in kept : m < k}) = n - 1
            /\ (arg.answer = Strip(arg.answer)
                   /\ Cardinality(kept) = Len(arg.used_source_ids))
                  => result[1] = arg

\* C13 witness: an answer with a quote in it and two ids came back exactly
C13_Witness ==
    /\ RoundTripDone
    /\ arg.answer = X_QUOTED
    /\ Len(arg.used_source_ids) = 2
    /\ result[1] = arg

\* C14: attribution filtering is idempotent: filtering the output of
\* _filter_sources_by_used_ids again with the same cited ids returns the same
\* list, same elements in the same order.
C14_FilterIdempotent ==
    pc = "filter_again_return" => result[2] = result[1]

\* C14 witness: three passages, one dropped, two kept in order, and the
\* second filtering returned those two
C14_Witness ==
    /\ pc = "filter_again_return"
    /\ Len(arg.contexts) = 3
    /\ Len(result[1]) = 2
    /\ result[1][1].source_id # result[1][2].source_id
    /\ result[2] = result[1]

\* the answer matches two telltale fragments or repeats the meta-phrase
AnswerIsGarbage == RedFlagHits(answer) >= 2 \/ Count(answer, META_PHRASE) >= 2

\* C15: on the generation path, once the guard has run, an answer that
\* matches two or more distinct telltale fragments or contains the
\* meta-phrase at least twice has ended the turn with the fixed refusal text,
\* empty sources and empty suggested questions, whether the answer came from
\* a parsed object or from the raw text and whatever ids the backend cited.
C15_GarbageEndsInRefusal ==
    (pc \in {"filter", "suggest", "done", "error"} /\ raw_text # <<>> /\ AnswerIsGarbage) =>
        /\ pc = "done"
        /\ returned_at = "garbage"
        /\ response # <<>>
        /\ response[1].answer = no_rag_fallback_answer
        /\ response[1].sources = <<>>
        /\ response[1].suggested_questions = <<>>

\* C15 witness: the backend's object cited a retrieved passage, its answer
\* carried two fragments, and the turn returned the refusal
C15_Witness ==
    /\ returned_at = "garbage"
    /\ extract_json_object(raw_text).t = "obj"
    /\ used_source_ids # <<>>
    /\ used_source_ids[1] \in Range(hits)
    /\ RedFlagHits(answer) >= 2
    /\ response # <<>>

\* the number of tokens of the query (runs of at least 2 token characters,
\* stop-words removed, each occurrence counted) that occur in the candidate
TokenCount(qry, candidate) ==
    LET q == Lower(qry)
    IN  Cardinality({p \in RunSpans(q, TokenChars) :
                        /\ SubSeq(q, p[1], p[2]) \notin QUERY_STOP_TOKENS
                        /\ Contains(Lower(candidate), SubSeq(q, p[1], p[2]))})

\* C16: the list returned by suggest_related_questions is made of the
\* template questions not yet asked, ordered by descending count of query
\* tokens occurring in the candidate, equal counts in template order, and cut
\* to the first top_k.
C16_SuggestionsRankedAndCut ==
    pc = "suggest_return" =>
        LET d == get_default_questions(product_id)
            cand == {i \in 1..Len(d) : d[i] \notin Range(conversation_history)}
            Before(i, j) ==
                \/ TokenCount(query, d[i]) > TokenCount(query, d[j])
                \/ TokenCount(query, d[i]) = TokenCount(query, d[j]) /\ i < j
            pos == [k \in 1..Len(suggested) |->
                      IF \E i \in cand : d[i] = suggested[k]
                      THEN CHOOSE i \in cand : d[i] = suggested[k]
                      ELSE 0]
        IN  /\ Len(suggested) = Min2(top_k, Cardinality(cand))
            /\ \A k \in 1..Len(suggested) : pos[k] # 0
            /\ \A k, l \in 1..Len(suggested) : k < l => Before(pos[k], pos[l])
            /\ \A i \in cand :
                  (\A k \in 1..Len(suggested) : pos[k] # i)
                     => \A k \in 1..Len(suggested) : Before(pos[k], i)

\* C16 witness: an asked question was left out, two candidates with
\* different positive counts were ranked by count, and an earlier candidate
\* with a lower count was outranked and cut
C16_Witness ==
    /\ pc = "suggest_return"
    /\ Range(conversation_history) \cap Range(get_default_questions(product_id)) # {}
    /\ top_k = 2
    /\ Len(suggested) = 2
    /\ TokenCount(query, suggested[1]) > TokenCount(query, suggested[2])
    /\ TokenCount(query, suggested[2]) > 0
    /\ LET d == get_default_questions(product_id)
       IN  \E i, j \in 1..Len(d) :
              /\ j < i
              /\ d[i] = suggested[1]
              /\ d[j] \notin Range(conversation_history)
              /\ d[j] \notin Range(suggested)

\* C17 as stated: the suggestion generator never fails: a direct call always
\* returns a list, also when the item lookup fails, and no turn ends in an
\* error after its suggestion step has looked the item up.
C17_SuggestionsNeverFail ==
    /\ pc # "suggest_raise"
    /\ ~(pc = "error" /\ lookup_calls > 0)

\* position of an orchestrator state in the order of handle_chat
Rank(p) ==
    CASE p = "ensure" -> 0
      [] p = "retrieve" -> 1
      [] p = "gate" -> 2
      [] p = "direct" -> 3
      [] p = "prompt" -> 4
      [] p = "llm" -> 5
      [] p = "parse" -> 6
      [] p = "guard" -> 7
      [] p = "filter" -> 8
      [] p = "suggest" -> 9
      [] OTHER -> 10

\* C18: every step of a turn moves to a later orchestrator state, so no
\* state is entered twice; at most one retrieval call and at most one
\* generation call are made, each from its own state only, the retrieval
\* before the generation; a turn that got past the retrieval state made
\* exactly one retrieval call; and nothing follows a backend that raised.
C18_EachStateOnce ==
    /\ [](/\ retrieve_calls <= 1
          /\ llm_calls <= 1
          /\ llm_calls = 1 => retrieve_calls = 1
          /\ Rank(pc) >= 2 /\ status \notin {400, 503} => retrieve_calls = 1
          /\ response # <<>> => retrieve_calls = 1)
    /\ [][/\ Rank(pc') > Rank(pc)
          /\ retrieve_calls' # retrieve_calls
                => (pc = "retrieve" /\ retrieve_calls = 0 /\ llm_calls = 0)
          /\ llm_calls' # llm_calls
                => (pc = "llm" /\ llm_calls = 0 /\ retrieve_calls = 1)]_vars

\* C18 witness: the backend raised after one retrieval and one generation
\* call, and the turn ended there
C18_Witness ==
    /\ pc = "error"
    /\ status = 500
    /\ retrieve_calls = 1
    /\ llm_calls = 1
    /\ raw_text = <<>>
    /\ response = <<>>

\* C19: a turn requested with a backend name other than "gemini" has ended,
\* once step 0 has run, with status 400 and without any availability probe,
\* retrieval, item lookup or generation call.
C19_InvalidBackendRejectedFirst ==
    (engine # "gemini" /\ pc # "ensure") =>
        /\ pc = "error"
        /\ status = 400
        /\ response = <<>>
        /\ probe_calls = 0
        /\ retrieve_calls = 0
        /\ lookup_calls = 0
        /\ llm_calls = 0

\* C19 witness: a name other than "gemini" was rejected while the accepted
\* backend was unavailable
C19_Witness ==
    /\ engine = "local"
    /\ ~gemini_available
    /\ pc = "error"
    /\ status = 400
    /\ probe_calls = 0

\* C20: a turn requested with "gemini" while it is reported unavailable has
\* ended, once step 0 has run, with status 503, which is not the status of
\* the invalid-backend error, and without a retrieval or a generation call.
C20_UnavailableBackendAborts ==
    (engine = "gemini" /\ ~gemini_available /\ pc # "ensure") =>
        /\ pc = "error"
        /\ status = 503
        /\ status # 400
        /\ response = <<>>
        /\ retrieve_calls = 0
        /\ llm_calls = 0

\* C20 witness: the accepted backend was probed, found unavailable, and the
\* turn ended with 503
C20_Witness ==
    /\ engine = "gemini"
    /\ ~gemini_available
    /\ probe_calls = 1
    /\ pc = "error"
    /\ status = 503

\* the three errors a caller can see: status_code and detail
CallerErrors ==
    { <<400, <<"engine-eun 'gemini'yeoya hamnida.">> >>,
      <<503, <<"hyeonjae gemini enjin-eul sayonghal su eopseumnida.">> >>,
      <<500, <<"chaetbot cheori jung oryuga balsaenghaetseumnida.">> >> }

\* C21: a turn that ended in an error shows the caller one of three errors,
\* invalid backend (400), backend unavailable (503) or internal failure
\* (500), each with its fixed detail; whenever a step raised an exception the
\* turn ended with the internal failure and its one fixed detail, which is
\* not the message of the exception; and no turn carries a status or a
\* detail without having ended in an error.
C21_ErrorsAreOpaque ==
    /\ pc = "error" => <<status, detail>> \in CallerErrors
    /\ pc # "error" => (status = 0 /\ detail = <<>> /\ raised = <<>>)
    /\ raised # <<>> =>
          /\ pc = "error"
          /\ status = 500
          /\ detail = <<"chaetbot cheori jung oryuga balsaenghaetseumnida.">>
          /\ detail # raised
          /\ response = <<>>

\* C21 witness: the retrieval raised and the caller got the internal failure
C21_Witness ==
    /\ pc = "error"
    /\ raised = <<"database is locked">>
    /\ retrieve_calls = 1
    /\ llm_calls = 0
    /\ status = 500
    /\ detail = <<DETAIL_500>>

\* C22 as stated: the only turns that end in an error are those rejected for
\* an unsupported or unavailable backend; every other turn ends in a response.
C22_OnlyBackendErrorsPropagate ==
    pc = "error" => status \in {400, 503}

\* C22 amended: besides the two backend errors a turn ends in an error only
\* when a step raised an exception, and then as the internal failure 500;
\* the backend's text itself never ends a turn in an error: parsing, the
\* guard and filtering always go on, a garbage answer is replaced by the
\* refusal, and a text without a JSON object is returned as the answer.
C22_OnlyExceptionsPropagate ==
    /\ [](/\ (pc = "error" /\ status \notin {400, 503}) =>
                (status = 500 /\ raised # <<>>)
          /\ (pc = "error" /\ status = 500 /\ llm_calls = 1) =>
                (raised[1] \in GenerationErrors \/ lookup_calls = 1)
          /\ (pc = "done" /\ returned_at = "garbage") =>
                response[1].answer = no_rag_fallback_answer
          /\ (pc = "done" /\ returned_at = "respond"
                /\ extract_json_object(raw_text).t # "obj") =>
                (response[1].answer = raw_text /\ raw_text # <<>>))
    /\ [][/\ pc \in {"parse", "guard", "filter"} =>
                pc' \in {"guard", "filter", "suggest", "done"}]_vars

\* C22 witness: a truncated object, which no stage parses, ended in a
\* response whose answer is the text
C22_Witness ==
    /\ pc = "done"
    /\ returned_at = "respond"
    /\ raw_text = RAW_TRUNCATED
    /\ response[1].answer = RAW_TRUNCATED
    /\ status = 0

\* C23 as stated: whenever a generate function was called in a turn it was
\* that of the requested engine, also when the availability of the backend
\* changed after the check of step 0.
C23_NoFallback ==
    served_by # "" => served_by = engine

\* C25 as stated: a response of the generation path whose answer is the
\* backend's entire text was built with an empty cited-id set and has no
\* sources.
C25_RawAnswerHidesSources ==
    (pc = "done" /\ returned_at = "respond" /\ response[1].answer = raw_text) =>
        /\ used_source_ids = <<>>
        /\ response[1].sources = <<>>

\* C26: a call of _rest_generate_content makes at most 3 HTTP attempts; every
\* attempt but the last one made ended in 429 or 503, the waits before the
\* second and the third attempt are 1 and 2 seconds; once any other outcome
\* or the third attempt is seen the loop is left; and the call always ends.
C26_RestAttemptsBounded ==
    /\ [](/\ Len(http_codes) <= 3
          /\ \A i \in 1..(Len(http_codes) - 1) : http_codes[i] \in {429, 503}
          /\ waits \in {<<>>, <<1>>, <<1, 2>>}
          /\ pc = "rest_loop" => Len(waits) = Len(http_codes)
          /\ pc \in {"rest_body", "rest_end"} /\ http_codes # <<>> =>
                Len(waits) = Len(http_codes) - 1
          /\ (pc = "rest_end" /\ http_codes # <<>>
                /\ http_codes[Len(http_codes)] # 200) => rest_result[1] = "raise")
    /\ [][/\ (pc = "rest_loop" /\ pc' = "rest_loop") =>
                (/\ http_codes'[Len(http_codes')] \in {429, 503}
                 /\ Len(http_codes') <= 2)]_vars
    /\ (pc = "rest_enter") ~> (pc = "rest_end")

\* C26 witness: the third attempt ended in 503 after 429 and 503, and the
\* call raised after waits of 1 and 2 seconds
C26_Witness ==
    /\ pc = "rest_end"
    /\ http_codes = <<429, 503, 503>>
    /\ waits = <<1, 2>>
    /\ rest_result[1] = "raise"

\* C27 as stated: one call of generate_gemini calls _rest_generate_content
\* at most once.
C27_RestFallbackOnce ==
    rest_calls <= 1

\* the loop of chunk_text is at its head with a start it has had before
StartRepeats == pc = "chunk_loop" /\ chunk_start \in Range(starts)

\* C28: chunk_text terminates for every text when chunk_overlap < chunk_size
\* (500 and 50 by default): the start of the loop never takes a value it had
\* at an earlier iteration, wherever the sentence ends fall
C28_StartNeverRepeats ==
    chunk_overlap < chunk_size => ~StartRepeats

\* position i (0-based) of the normalised text lies in a slice taken
Covered(i) == \E k \in 1..Len(slices) : slices[k][1] <= i /\ i < slices[k][2]

\* C29: chunk_text loses no text: when it returns, every position of the
\* normalised text lies in a slice that became a chunk
C29_NoTextLost ==
    pc = "chunk_return" => \A i \in 0..(Len(ctext) - 1) : Covered(i)

\* the ids of the passages of product pid in the collection
IdsOf(coll, pid) ==
    {coll[k].id : k \in {j \in 1..Len(coll) : coll[j].metadata.product_id = pid}}

\* ids is the answer of a search for product pid over the whole collection
CompleteSearch(ids, pid) ==
    \E all \in {IdsOf(collection, pid)} :
        /\ Len(ids) = Min2(RETRIEVE_TOP_K, Cardinality(all))
        /\ Cardinality(Range(ids)) = Len(ids)
        /\ Range(ids) \subseteq all

AsApiSources(srcs) == [i \in 1..Len(srcs) |-> api_context_source(srcs[i])]

\* C30: for the same request and the same results of retrieval, generation
\* and item lookup, POST /api/chat and handle_chat return the same answer,
\* the same sources and the same suggested questions
C30_EndpointMatchesService ==
    api_response # <<>> =>
        /\ api_response[1].answer = response[1].answer
        /\ api_response[1].sources = AsApiSources(response[1].sources)
        /\ api_response[1].suggested_questions = response[1].suggested_questions

====
